---- MODULE Spec2Model ----
(***************************************************************************)
(* tooliscode: one WASI guest session driven by host threads over a framed *)
(* stdio pair.  Host side: src/src/tooliscode/host.py (WasiService,        *)
(* _Session).  Guest side: src/src/tooliscode/guest.py (main loop,         *)
(* run_cell) and guest_helpers.py (ToolRuntime, lp_read, lp_write).        *)
(*                                                                         *)
(* A frame is modelled by the fields the two loops dispatch on: its type,  *)
(* its tool-request id, the exec_cell call whose code it carries or        *)
(* answers, its ok flag and its error body.                                *)
(***************************************************************************)
EXTENDS Integers, Sequences, FiniteSets, TLC

\* ---------------------------------------------------------------- bounds
NumThreads == 2           \* host threads calling the service
MaxCalls == 2             \* service calls started over one behaviour
MaxTools == 1             \* tool_request frames the guest writes over one behaviour
MaxFrames == 2            \* frames put on one byte stream over one behaviour
NumSessions == 2          \* session ids create_session draws over one behaviour
MaxTicks == 3             \* clock ticks over one guest tool_call
MaxMsgs == 2              \* frames the host writes during one guest tool_call
MaxToolList == 3          \* descriptors in the user's tool list
MaxParams == 2            \* properties in the parameters schema of one tool
MaxErrBytes == 2          \* bytes the guest leaves on its stderr stream

\* ------------------------------------------------------ program constants
DefaultTimeoutMs == 8000  \* exec_cell(code, timeout_ms=8000)
MaxBytes == 2000000       \* _lp_read(stdout_stream, max_bytes=2_000_000)
HeaderMax == 64           \* _lp_read: if len(header) > 64
PipeCapacity == 65536     \* room of the FIFO _FifoWriter writes to without blocking

Threads == 1..NumThreads
SID == "sid"              \* the session id create_session draws
Timeouts == {0, DefaultTimeoutMs}

VARIABLES
    sessions,      \* WasiService._sessions: the session ids present
    svcLock,       \* WasiService._lock (RLock): owning thread, 0 when free
    created,       \* _Session.__init__ has run
    ih,            \* _Session._ih is not None
    lock,          \* _Session._lock: owning thread, 0 when free
    stdin,         \* frames written by the host, not yet read by the guest
    stdout,        \* frames written by the guest, not yet read by the host
    stdioClosed,   \* _cleanup_stdio has closed the three streams
    gpc,           \* guest thread position
    guestErr,      \* _Session._guest_error
    G,             \* guest.py G: "fresh", or "bound" when it holds a binding a cell made
    gcell,         \* call whose cell the guest is running
    gtool,         \* id of the tool_request the guest is awaiting
    glast,         \* how the last tool_call of the running cell ended
    gret,          \* the last guest tool_call: request id, how it ended, the frame it read
    interrupt,     \* engine interrupt requested and not yet delivered
    pc,            \* host thread position
    op,            \* service operation the thread is in
    call,          \* index of the thread's service call
    timeout,       \* timeout_ms of the thread's exec_cell
    timer,         \* threading.Timer of the thread's exec_cell
    timed_out,     \* the nonlocal flag of exec_cell
    resp,          \* resp of exec_cell
    errText,       \* err_text of exec_cell
    note,          \* what the thread's call saw of the session and did to it
    ret,           \* the service call that returned last, with its result
    nCalls,        \* service calls started so far
    nextId,        \* tool_request ids drawn so far (uuid4: never repeated)
    lastTool,      \* the last _handle_tool_request: request id, callback outcome, frame written
    fside,         \* byte stream under study: the side that reads it
    fstream,       \* bytes written and not yet read, as runs
    feof,          \* the writing end is closed
    fsent,         \* objects whose frame a write has put on the stream whole
    frecv,         \* results of the read operation, in order
    fread,         \* the read operation in progress: phase, length, data, header
    fhist,         \* writes done, a raw frame written, a write cut, reaction at end of file
    registry,      \* several sessions: WasiService._sessions, keys in insertion order
    regLock,       \* WasiService._lock is held by a running close_all
    guests,        \* per session id: "none" (id not drawn yet), "running", "dead"
    closed,        \* ids of the sessions on which _Session.close has been invoked
    globals,       \* per session: 1 when its guest's G holds the binding of a cell
    scratch,       \* per session: 1 when root/<sid>/ holds a file written by a cell
    home,          \* session that wrote the file in PYTHON_WASM_HOME last (0: no file)
    homeCfg,       \* PYTHON_WASM_HOME names a directory
    solo,          \* per session: its globals, scratch and home file in the run
                   \* where no operation was made on any other session
    lastRes,       \* the last exec_cell result, beside the result of the solo run
    ca,            \* progress of close_all: ids at its start, left to close, failed
    hmsg,          \* _handle_tool_request alone: the message it is given
    hcb,           \* what the callback does: kind, and the mapping it returns
    hcalls,        \* argument tuples of the callback's invocations, in order
    hwritten,      \* frames written to self._stdin, in order
    hpc,           \* "start", "done" (handler returned), "raised"
    tcCall,        \* a guest tool_call alone: who calls, name, args, timeout
    tcPc,          \* "start", "await", "returned", or the exception raised
    tcClosed,      \* ToolRuntime._closed
    tcNow,         \* time elapsed since the call, in ticks
    tcIn,          \* frames on the guest's stdin, not yet read
    tcOut,         \* tool_request frames the guest has written
    tcSent,        \* frames the host has written so far
    faPc,          \* the facade: "new" (being constructed), "built" (its fields
                   \* are set), "read", "called", or the exception raised
    faTools,       \* ToolIsCode._orig_tools: the user's tool list
    faCall,        \* the func_call record given to tool_call
    faExec,        \* the codes exec_cell was invoked with, in order
    faRet,         \* what the tools property or tool_call returned, with the
                   \* ExecResult that exec_cell gave
    faSessions,    \* sessions the constructor created in wasi_service
    faSdk,         \* content of sdk.py in the session's scratch directory
    emSchema,      \* the stub generator: the "parameters" schema of one tool
    emParams,      \* the _ToolParameter list _parse_parameters returns
    emSig,         \* the parameters of the generated def: name and default
    emPc,          \* "schema", "parsed", "emitted"
    crPc,          \* create_session by several threads: per thread "idle",
                   \* "drawn", "checked", "returned", or the exception raised
    crSid,         \* per thread: the sid it drew
    crReg,         \* WasiService._sessions: per sid the session stored (0: none)
    sioPc,         \* the stdio of one session over FIFOs: "new", "assigned",
                   \* "ready", "closed", "init_failed"
    sioStreams,    \* _stdin, _stdout, _stderr: "none", "open", "closed"
    sioNodes,      \* FIFO nodes present in the session directory
    sioHolders,    \* _fifo_placeholders: names whose descriptor is open
    sioErr,        \* bytes buffered on the guest stderr stream
    sioRet,        \* what the last exec_cell or close returned
    hist           \* exec_request frames unanswered, cells running, an exec_request
                   \* read inside a cell, a tool_request the host left unanswered,
                   \* a cell bound a global and no reset or exit was written since

vars == <<sessions, svcLock, created, ih, lock, stdin, stdout, stdioClosed,
          gpc, guestErr, G, gcell, gtool, glast, gret, interrupt,
          pc, op, call, timeout, timer, timed_out, resp, errText, note, ret,
          nCalls, nextId, lastTool, hist,
          fside, fstream, feof, fsent, frecv, fread, fhist,
          registry, regLock, guests, closed, globals, scratch, home, homeCfg,
          solo, lastRes, ca,
          hmsg, hcb, hcalls, hwritten, hpc,
          tcCall, tcPc, tcClosed, tcNow, tcIn, tcOut, tcSent,
          faPc, faTools, faCall, faExec, faRet, faSessions, faSdk,
          emSchema, emParams, emSig, emPc,
          crPc, crSid, crReg,
          sioPc, sioStreams, sioNodes, sioHolders, sioErr, sioRet>>

\* ---------------------------------------------------------------- frames
Frame(type, id, k, ok, err) ==
    [type |-> type, id |-> id, call |-> k, ok |-> ok, err |-> err]

NoFrame == Frame("nil", 0, 0, FALSE, "none")

ExecRequest(k) == Frame("exec_request", 0, k, FALSE, "none")
ResetFrame == Frame("reset", 0, 0, FALSE, "none")
ExitFrame == Frame("exit", 0, 0, FALSE, "none")
ToolRequest(id, k) == Frame("tool_request", id, k, FALSE, "none")
\* guest.py writes the acknowledgement {"ok": True} without a type field
Ack == Frame("none", 0, 0, TRUE, "none")
UnknownType == Frame("none", 0, 0, FALSE, "unknown type")

\* ------------------------------------------------------- host: pure parts

\* mutant: the liveness of the guest thread is not checked
EnsureGuestRunning_NoCheck == "ok"

\* _Session._ensure_guest_running: "ok", or the message of the RuntimeError
EnsureGuestRunning ==
    IF ~created THEN "guest not started"
    ELSE IF gpc # "dead" THEN "ok"
    ELSE IF guestErr # "none" THEN "guest process terminated"
    ELSE "guest process exited unexpectedly"

\* mutant: a write on a closed stream goes through
CanWrite_Always == TRUE

\* _FifoWriter.write / Pipe.write on a stream _cleanup_stdio has closed raises
CanWrite == ~stdioClosed

\* What a blocking _lp_read(self._stdout) does next.  With the guest thread
\* gone and nothing buffered, whether the read sees end-of-file or stays
\* blocked depends on who still holds the write end: both are outcomes.
HostRead ==
    IF stdioClosed THEN "closed"
    ELSE IF stdout # <<>> THEN "frame"
    ELSE IF gpc = "dead" THEN "eof_or_block"
    ELSE "block"

\* exec_cell, the two except clauses: err_text from the exception caught
ErrText(exc, timedOut) ==
    IF exc = "Trap" THEN (IF timedOut THEN "Timeout" ELSE "Trap") ELSE exc

\* mutant: the resp of an except clause says ok
Synthetic_Ok(err) == Frame("synthetic", 0, 0, TRUE, err)

\* exec_cell: resp built in an except clause
Synthetic(err) == Frame("synthetic", 0, 0, FALSE, err)

\* What the user callback can do when called by _handle_tool_request:
\* return a mapping (plain, or carrying its own "id" or "type" key), raise
\* an Exception, or return something that is not a mapping
CallbackOutcomes == {"mapping", "own_id", "own_type", "raises", "non_mapping"}

\* an "id" value a callback puts into its mapping: not the id of any request
OwnId(id) == id + MaxTools

\* mutant: the callback's exception leaves the handler, nothing is written
ToolResponse_RaisePropagates(id, outcome) ==
    CASE outcome = "mapping" -> Frame("tool_result", id, 0, FALSE, "none")
      [] outcome = "own_id" -> Frame("tool_result", OwnId(id), 0, FALSE, "none")
      [] outcome = "own_type" -> Frame("other", id, 0, FALSE, "none")
      [] OTHER -> NoFrame

\* _handle_tool_request: the frame written for request id, NoFrame when the
\* handler raises instead of writing (assert isinstance(result, dict))
ToolResponse(id, outcome) ==
    CASE outcome = "raises" -> Frame("tool_result", id, 0, FALSE, "Exception")
      [] outcome = "mapping" -> Frame("tool_result", id, 0, FALSE, "none")
      [] outcome = "own_id" -> Frame("tool_result", OwnId(id), 0, FALSE, "none")
      [] outcome = "own_type" -> Frame("other", id, 0, FALSE, "none")
      [] OTHER -> NoFrame

\* _wait_for_exec_result: a terminal frame without type becomes exec_result
FillType(f) == IF f.type = "none" THEN [f EXCEPT !.type = "exec_result"] ELSE f

\* exec_cell: the ExecResult built from resp and err_text; from and type
\* keep, for the claims, the call and type of the frame it was built from
NoRes == [kind |-> "pending", ok |-> FALSE, error |-> "none", from |-> 0,
          type |-> "nil"]
MakeResult(r, err) ==
    [kind |-> "result", ok |-> r.ok,
     error |-> IF r.err # "none" THEN r.err ELSE err,
     from |-> r.call, type |-> r.type]
Raised(exc) == [NoRes EXCEPT !.kind = "raised", !.error = exc]
Returned == [NoRes EXCEPT !.kind = "none"]

\* note: session is TRUE when the call went on to a method of the _Session
NoNote == [session |-> FALSE, guestDead |-> FALSE, closed |-> FALSE,
           lockedAfterClose |-> FALSE, wroteReq |-> FALSE]
NoRet == [res |-> NoRes, op |-> "none", call |-> 0, timedOut |-> FALSE,
          note |-> NoNote]
NoTool == [id |-> 0, cb |-> "none", wrote |-> NoFrame, call |-> 0]
NoGret == [id |-> 0, status |-> "none", got |-> NoFrame]

\* ------------------------------------------------------------------ Init
\* the service before any call
ServiceIdle ==
    /\ sessions = {}
    /\ svcLock = 0
    /\ created = FALSE
    /\ ih = FALSE
    /\ lock = 0
    /\ stdin = <<>>
    /\ stdout = <<>>
    /\ stdioClosed = FALSE
    /\ gpc = "none"
    /\ guestErr = "none"
    /\ G = "fresh"
    /\ gcell = 0
    /\ gtool = 0
    /\ glast = "none"
    /\ gret = NoGret
    /\ interrupt = FALSE
    /\ pc = [t \in Threads |-> "idle"]
    /\ op = [t \in Threads |-> "none"]
    /\ call = [t \in Threads |-> 0]
    /\ timeout = [t \in Threads |-> 0]
    /\ timer = [t \in Threads |-> "none"]
    /\ timed_out = [t \in Threads |-> FALSE]
    /\ resp = [t \in Threads |-> NoFrame]
    /\ errText = [t \in Threads |-> "none"]
    /\ note = [t \in Threads |-> NoNote]
    /\ ret = NoRet
    /\ nCalls = 0
    /\ nextId = 1
    /\ lastTool = NoTool
    /\ hist = [unanswered |-> 0, running |-> 0, midCell |-> FALSE,
               fault |-> FALSE, bound |-> FALSE]

\* ------------------------------------------------------ calls and returns

\* what a call sees of the session when it begins
NoteNow == [NoNote EXCEPT !.guestDead = (gpc = "dead"), !.closed = stdioClosed]

\* A thread enters a service call that goes on to a further step
Begin(t, o, tmo) ==
    /\ pc[t] = "idle"
    /\ nCalls < MaxCalls
    /\ nCalls' = nCalls + 1
    /\ op' = [op EXCEPT ![t] = o]
    /\ call' = [call EXCEPT ![t] = nCalls + 1]
    /\ timeout' = [timeout EXCEPT ![t] = tmo]
    /\ note' = [note EXCEPT ![t] = [NoteNow EXCEPT !.session = TRUE]]
    /\ UNCHANGED <<timer, timed_out, resp, errText, ret>>

\* A thread enters a service call that returns or raises at once
BeginReturn(t, o, res) ==
    /\ pc[t] = "idle"
    /\ nCalls < MaxCalls
    /\ nCalls' = nCalls + 1
    /\ ret' = [res |-> res, op |-> o, call |-> nCalls + 1, timedOut |-> FALSE,
               note |-> NoteNow]
    /\ UNCHANGED <<pc, op, call, timeout, timer, timed_out, resp, errText, note>>

\* The thread's call returns res (or raises it): its locals end with it
Return(t, res) ==
    /\ ret' = [res |-> res, op |-> op[t], call |-> call[t],
               timedOut |-> timed_out[t], note |-> note[t]]
    /\ pc' = [pc EXCEPT ![t] = "idle"]
    /\ op' = [op EXCEPT ![t] = "none"]
    /\ call' = [call EXCEPT ![t] = 0]
    /\ timeout' = [timeout EXCEPT ![t] = 0]
    /\ timer' = [timer EXCEPT ![t] = "none"]
    /\ timed_out' = [timed_out EXCEPT ![t] = FALSE]
    /\ resp' = [resp EXCEPT ![t] = NoFrame]
    /\ errText' = [errText EXCEPT ![t] = "none"]
    /\ note' = [note EXCEPT ![t] = NoNote]

\* ------------------------------------------------------ service registry

\* WasiService.create_session and _Session.__init__: the session is built
\* and inserted under the registry lock; the guest thread is started.
CreateSession(t) ==
    /\ pc[t] = "idle"
    /\ ~created
    /\ SID \notin sessions
    /\ svcLock = 0
    /\ created' = TRUE
    /\ \E h \in BOOLEAN : ih' = h
    /\ sessions' = sessions \cup {SID}
    /\ gpc' = "read"
    /\ UNCHANGED <<svcLock, lock, stdin, stdout, stdioClosed, guestErr, G,
                   gcell, gtool, glast, gret, interrupt, pc, op, call,
                   timeout, timer, timed_out, resp, errText, note, ret,
                   nCalls, nextId, lastTool, hist, fside, fstream, feof,
                   fsent, frecv, fread, fhist, registry, regLock, guests,
                   closed, globals, scratch, home, homeCfg, solo, lastRes,
                   ca, hmsg, hcb, hcalls, hwritten, hpc, tcCall, tcPc,
                   tcClosed, tcNow, tcIn, tcOut, tcSent, faPc, faTools,
                   faCall, faExec, faRet, faSessions, faSdk, emSchema,
                   emParams, emSig, emPc, crPc, crSid, crReg, sioPc,
                   sioStreams, sioNodes, sioHolders, sioErr, sioRet>>

\* mutant: a missing sid is looked up with .get and the call returns None
SvcExecCell_SilentOnMiss(t) ==
    IF SID \in sessions
    THEN /\ \E tmo \in Timeouts : Begin(t, "exec", tmo)
         /\ pc' = [pc EXCEPT ![t] = "exec_lock"]
         /\ UNCHANGED <<sessions, svcLock, created, ih, lock, stdin, stdout,
                        stdioClosed, gpc, guestErr, G, gcell, gtool, glast,
                        gret, interrupt, nextId, lastTool, hist, fside,
                        fstream, feof, fsent, frecv, fread, fhist, registry,
                        regLock, guests, closed, globals, scratch, home,
                        homeCfg, solo, lastRes, ca, hmsg, hcb, hcalls,
                        hwritten, hpc, tcCall, tcPc, tcClosed, tcNow, tcIn,
                        tcOut, tcSent, faPc, faTools, faCall, faExec, faRet,
                        faSessions, faSdk, emSchema, emParams, emSig, emPc,
                        crPc, crSid, crReg, sioPc, sioStreams, sioNodes,
                        sioHolders, sioErr, sioRet>>
    ELSE /\ BeginReturn(t, "exec", Returned)
         /\ UNCHANGED <<sessions, svcLock, created, ih, lock, stdin, stdout,
                        stdioClosed, gpc, guestErr, G, gcell, gtool, glast,
                        gret, interrupt, nextId, lastTool, hist, fside,
                        fstream, feof, fsent, frecv, fread, fhist, registry,
                        regLock, guests, closed, globals, scratch, home,
                        homeCfg, solo, lastRes, ca, hmsg, hcb, hcalls,
                        hwritten, hpc, tcCall, tcPc, tcClosed, tcNow, tcIn,
                        tcOut, tcSent, faPc, faTools, faCall, faExec, faRet,
                        faSessions, faSdk, emSchema, emParams, emSig, emPc,
                        crPc, crSid, crReg, sioPc, sioStreams, sioNodes,
                        sioHolders, sioErr, sioRet>>

\* WasiService.exec_cell: self._sessions[sid], read without the registry
\* lock; a missing sid raises KeyError
SvcExecCell(t) ==
    IF SID \in sessions
    THEN /\ \E tmo \in Timeouts : Begin(t, "exec", tmo)
         /\ pc' = [pc EXCEPT ![t] = "exec_lock"]
         /\ UNCHANGED <<sessions, svcLock, created, ih, lock, stdin, stdout,
                        stdioClosed, gpc, guestErr, G, gcell, gtool, glast,
                        gret, interrupt, nextId, lastTool, hist, fside,
                        fstream, feof, fsent, frecv, fread, fhist, registry,
                        regLock, guests, closed, globals, scratch, home,
                        homeCfg, solo, lastRes, ca, hmsg, hcb, hcalls,
                        hwritten, hpc, tcCall, tcPc, tcClosed, tcNow, tcIn,
                        tcOut, tcSent, faPc, faTools, faCall, faExec, faRet,
                        faSessions, faSdk, emSchema, emParams, emSig, emPc,
                        crPc, crSid, crReg, sioPc, sioStreams, sioNodes,
                        sioHolders, sioErr, sioRet>>
    ELSE /\ BeginReturn(t, "exec", Raised("KeyError"))
         /\ UNCHANGED <<sessions, svcLock, created, ih, lock, stdin, stdout,
                        stdioClosed, gpc, guestErr, G, gcell, gtool, glast,
                        gret, interrupt, nextId, lastTool, hist, fside,
                        fstream, feof, fsent, frecv, fread, fhist, registry,
                        regLock, guests, closed, globals, scratch, home,
                        homeCfg, solo, lastRes, ca, hmsg, hcb, hcalls,
                        hwritten, hpc, tcCall, tcPc, tcClosed, tcNow, tcIn,
                        tcOut, tcSent, faPc, faTools, faCall, faExec, faRet,
                        faSessions, faSdk, emSchema, emParams, emSig, emPc,
                        crPc, crSid, crReg, sioPc, sioStreams, sioNodes,
                        sioHolders, sioErr, sioRet>>

\* ------------------------------------------------------ _Session.exec_cell

\* exec_cell: "with self._lock", then the one-shot timer is started when a
\* timeout is given and an interrupt handle exists
ExecAcquire(t) ==
    /\ pc[t] = "exec_lock"
    /\ lock = 0
    /\ lock' = t
    /\ timer' = [timer EXCEPT ![t] =
                   IF timeout[t] > 0 /\ ih THEN "armed" ELSE "none"]
    /\ note' = [note EXCEPT ![t].lockedAfterClose = stdioClosed]
    /\ pc' = [pc EXCEPT ![t] = "exec_write"]
    /\ UNCHANGED <<sessions, svcLock, created, ih, stdin, stdout,
                   stdioClosed, gpc, guestErr, G, gcell, gtool, glast, gret,
                   interrupt, op, call, timeout, timed_out, resp, errText,
                   ret, nCalls, nextId, lastTool, hist, fside, fstream, feof,
                   fsent, frecv, fread, fhist, registry, regLock, guests,
                   closed, globals, scratch, home, homeCfg, solo, lastRes,
                   ca, hmsg, hcb, hcalls, hwritten, hpc, tcCall, tcPc,
                   tcClosed, tcNow, tcIn, tcOut, tcSent, faPc, faTools,
                   faCall, faExec, faRet, faSessions, faSdk, emSchema,
                   emParams, emSig, emPc, crPc, crSid, crReg, sioPc,
                   sioStreams, sioNodes, sioHolders, sioErr, sioRet>>

\* The timer thread: _on_timeout sets timed_out and interrupts the engine.
\* It can run until the finally clause cancels the timer: "late" is a
\* timer that fired after the try block had produced resp.
TimerFire(t) ==
    /\ timer[t] = "armed"
    /\ timer' = [timer EXCEPT ![t] =
                   IF pc[t] = "exec_finish" THEN "late" ELSE "fired"]
    /\ timed_out' = [timed_out EXCEPT ![t] = TRUE]
    /\ interrupt' = TRUE
    /\ UNCHANGED <<sessions, svcLock, created, ih, lock, stdin, stdout,
                   stdioClosed, gpc, guestErr, G, gcell, gtool, glast, gret,
                   pc, op, call, timeout, resp, errText, note, ret, nCalls,
                   nextId, lastTool, hist, fside, fstream, feof, fsent,
                   frecv, fread, fhist, registry, regLock, guests, closed,
                   globals, scratch, home, homeCfg, solo, lastRes, ca, hmsg,
                   hcb, hcalls, hwritten, hpc, tcCall, tcPc, tcClosed, tcNow,
                   tcIn, tcOut, tcSent, faPc, faTools, faCall, faExec, faRet,
                   faSessions, faSdk, emSchema, emParams, emSig, emPc, crPc,
                   crSid, crReg, sioPc, sioStreams, sioNodes, sioHolders,
                   sioErr, sioRet>>

\* exec_cell: an exception caught by "except wasmtime.Trap" or "except
\* Exception": resp becomes the synthetic failure
ExecFail(t, exc) ==
    /\ errText' = [errText EXCEPT ![t] = ErrText(exc, timed_out[t])]
    /\ resp' = [resp EXCEPT ![t] = Synthetic(ErrText(exc, timed_out[t]))]
    /\ pc' = [pc EXCEPT ![t] = "exec_finish"]

\* exec_cell: _ensure_guest_running(), then _lp_write of the exec_request
ExecWrite(t) ==
    /\ pc[t] = "exec_write"
    /\ IF EnsureGuestRunning # "ok"
       THEN /\ ExecFail(t, EnsureGuestRunning)
            /\ UNCHANGED <<stdin, hist, note>>
       ELSE IF ~CanWrite
       THEN /\ ExecFail(t, "closed stream")
            /\ UNCHANGED <<stdin, hist, note>>
       ELSE /\ stdin' = Append(stdin, ExecRequest(call[t]))
            /\ hist' = [hist EXCEPT !.unanswered = @ + 1]
            /\ note' = [note EXCEPT ![t].wroteReq = TRUE]
            /\ pc' = [pc EXCEPT ![t] = "exec_wait"]
            /\ UNCHANGED <<resp, errText>>
    /\ UNCHANGED <<sessions, svcLock, created, ih, lock, stdout, stdioClosed,
                   gpc, guestErr, G, gcell, gtool, glast, gret, interrupt,
                   op, call, timeout, timer, timed_out, ret, nCalls, nextId,
                   lastTool, fside, fstream, feof, fsent, frecv, fread,
                   fhist, registry, regLock, guests, closed, globals,
                   scratch, home, homeCfg, solo, lastRes, ca, hmsg, hcb,
                   hcalls, hwritten, hpc, tcCall, tcPc, tcClosed, tcNow,
                   tcIn, tcOut, tcSent, faPc, faTools, faCall, faExec, faRet,
                   faSessions, faSdk, emSchema, emParams, emSig, emPc, crPc,
                   crSid, crReg, sioPc, sioStreams, sioNodes, sioHolders,
                   sioErr, sioRet>>

\* _wait_for_exec_result reads a tool_request; _handle_tool_request calls
\* the callback and writes its response, or raises out of exec_cell's try
ExecToolRequest(t) ==
    /\ pc[t] = "exec_wait"
    /\ HostRead = "frame"
    /\ Head(stdout).type = "tool_request"
    /\ stdout' = Tail(stdout)
    /\ \E o \in CallbackOutcomes :
         LET id == Head(stdout).id
             f == ToolResponse(id, o)
         IN /\ lastTool' = [id |-> id, cb |-> o, wrote |-> f, call |-> call[t]]
            /\ IF f = NoFrame
               THEN /\ ExecFail(t, "assertion")
                    /\ hist' = [hist EXCEPT !.fault = TRUE]
                    /\ UNCHANGED stdin
               ELSE /\ stdin' = Append(stdin, f)
                    /\ UNCHANGED <<pc, resp, errText, hist>>
    /\ UNCHANGED <<sessions, svcLock, created, ih, lock, stdioClosed, gpc,
                   guestErr, G, gcell, gtool, glast, gret, interrupt, op,
                   call, timeout, timer, timed_out, note, ret, nCalls,
                   nextId, fside, fstream, feof, fsent, frecv, fread, fhist,
                   registry, regLock, guests, closed, globals, scratch, home,
                   homeCfg, solo, lastRes, ca, hmsg, hcb, hcalls, hwritten,
                   hpc, tcCall, tcPc, tcClosed, tcNow, tcIn, tcOut, tcSent,
                   faPc, faTools, faCall, faExec, faRet, faSessions, faSdk,
                   emSchema, emParams, emSig, emPc, crPc, crSid, crReg,
                   sioPc, sioStreams, sioNodes, sioHolders, sioErr, sioRet>>

\* _wait_for_exec_result reads any other frame: the terminal exec_result
ExecRecvResult(t) ==
    /\ pc[t] = "exec_wait"
    /\ HostRead = "frame"
    /\ Head(stdout).type # "tool_request"
    /\ stdout' = Tail(stdout)
    /\ resp' = [resp EXCEPT ![t] = FillType(Head(stdout))]
    /\ pc' = [pc EXCEPT ![t] = "exec_finish"]
    /\ UNCHANGED <<sessions, svcLock, created, ih, lock, stdin, stdioClosed,
                   gpc, guestErr, G, gcell, gtool, glast, gret, interrupt,
                   op, call, timeout, timer, timed_out, errText, note, ret,
                   nCalls, nextId, lastTool, hist, fside, fstream, feof,
                   fsent, frecv, fread, fhist, registry, regLock, guests,
                   closed, globals, scratch, home, homeCfg, solo, lastRes,
                   ca, hmsg, hcb, hcalls, hwritten, hpc, tcCall, tcPc,
                   tcClosed, tcNow, tcIn, tcOut, tcSent, faPc, faTools,
                   faCall, faExec, faRet, faSessions, faSdk, emSchema,
                   emParams, emSig, emPc, crPc, crSid, crReg, sioPc,
                   sioStreams, sioNodes, sioHolders, sioErr, sioRet>>

\* _lp_read raises EOFError("guest stdout closed"): caught by except Exception
ExecEof(t) ==
    /\ pc[t] = "exec_wait"
    /\ HostRead = "eof_or_block"
    /\ ExecFail(t, "guest stdout closed")
    /\ UNCHANGED <<sessions, svcLock, created, ih, lock, stdin, stdout,
                   stdioClosed, gpc, guestErr, G, gcell, gtool, glast, gret,
                   interrupt, op, call, timeout, timer, timed_out, note, ret,
                   nCalls, nextId, lastTool, hist, fside, fstream, feof,
                   fsent, frecv, fread, fhist, registry, regLock, guests,
                   closed, globals, scratch, home, homeCfg, solo, lastRes,
                   ca, hmsg, hcb, hcalls, hwritten, hpc, tcCall, tcPc,
                   tcClosed, tcNow, tcIn, tcOut, tcSent, faPc, faTools,
                   faCall, faExec, faRet, faSessions, faSdk, emSchema,
                   emParams, emSig, emPc, crPc, crSid, crReg, sioPc,
                   sioStreams, sioNodes, sioHolders, sioErr, sioRet>>

\* _drain_stderr on closed streams: the FIFO reader raises OSError out of
\* exec_cell, a pipe object returns no bytes
DrainOutcomes == IF stdioClosed THEN {"ok", "OSError"} ELSE {"ok"}

\* mutant: a timer that has fired turns the result into the Timeout error
ExecFinish_TimeoutWins(t) ==
    /\ pc[t] = "exec_finish"
    /\ \E d \in DrainOutcomes :
         Return(t, IF d # "ok" THEN Raised(d)
                   ELSE IF timed_out[t]
                   THEN MakeResult(Synthetic("Timeout"), "Timeout")
                   ELSE MakeResult(resp[t], errText[t]))
    /\ lock' = 0
    /\ UNCHANGED <<sessions, svcLock, created, ih, stdin, stdout,
                   stdioClosed, gpc, guestErr, G, gcell, gtool, glast, gret,
                   interrupt, nCalls, nextId, lastTool, hist, fside, fstream,
                   feof, fsent, frecv, fread, fhist, registry, regLock,
                   guests, closed, globals, scratch, home, homeCfg, solo,
                   lastRes, ca, hmsg, hcb, hcalls, hwritten, hpc, tcCall,
                   tcPc, tcClosed, tcNow, tcIn, tcOut, tcSent, faPc, faTools,
                   faCall, faExec, faRet, faSessions, faSdk, emSchema,
                   emParams, emSig, emPc, crPc, crSid, crReg, sioPc,
                   sioStreams, sioNodes, sioHolders, sioErr, sioRet>>

\* exec_cell: finally timer.cancel(); _drain_stderr(); the ExecResult is
\* returned and the session mutex released
ExecFinish(t) ==
    /\ pc[t] = "exec_finish"
    /\ \E d \in DrainOutcomes :
         Return(t, IF d = "ok" THEN MakeResult(resp[t], errText[t])
                   ELSE Raised(d))
    /\ lock' = 0
    /\ UNCHANGED <<sessions, svcLock, created, ih, stdin, stdout,
                   stdioClosed, gpc, guestErr, G, gcell, gtool, glast, gret,
                   interrupt, nCalls, nextId, lastTool, hist, fside, fstream,
                   feof, fsent, frecv, fread, fhist, registry, regLock,
                   guests, closed, globals, scratch, home, homeCfg, solo,
                   lastRes, ca, hmsg, hcb, hcalls, hwritten, hpc, tcCall,
                   tcPc, tcClosed, tcNow, tcIn, tcOut, tcSent, faPc, faTools,
                   faCall, faExec, faRet, faSessions, faSdk, emSchema,
                   emParams, emSig, emPc, crPc, crSid, crReg, sioPc,
                   sioStreams, sioNodes, sioHolders, sioErr, sioRet>>

\* ------------------------------------------- WasiService.reset / _Session.reset

\* mutant: the session is looked up with self._sessions[sid]
SvcReset_RaisesOnMiss(t) ==
    /\ svcLock = 0
    /\ IF SID \in sessions
       THEN /\ Begin(t, "reset", 0)
            /\ svcLock' = t
            /\ pc' = [pc EXCEPT ![t] = "reset_lock"]
       ELSE /\ BeginReturn(t, "reset", Raised("KeyError"))
            /\ UNCHANGED svcLock
    /\ UNCHANGED <<sessions, created, ih, lock, stdin, stdout, stdioClosed,
                   gpc, guestErr, G, gcell, gtool, glast, gret, interrupt,
                   nextId, lastTool, hist, fside, fstream, feof, fsent,
                   frecv, fread, fhist, registry, regLock, guests, closed,
                   globals, scratch, home, homeCfg, solo, lastRes, ca, hmsg,
                   hcb, hcalls, hwritten, hpc, tcCall, tcPc, tcClosed, tcNow,
                   tcIn, tcOut, tcSent, faPc, faTools, faCall, faExec, faRet,
                   faSessions, faSdk, emSchema, emParams, emSig, emPc, crPc,
                   crSid, crReg, sioPc, sioStreams, sioNodes, sioHolders,
                   sioErr, sioRet>>

\* WasiService.reset: under the registry lock, look the session up; absent
\* is a no-op, present goes on to session.reset() with the lock held
SvcReset(t) ==
    /\ svcLock = 0
    /\ IF SID \in sessions
       THEN /\ Begin(t, "reset", 0)
            /\ svcLock' = t
            /\ pc' = [pc EXCEPT ![t] = "reset_lock"]
       ELSE /\ BeginReturn(t, "reset", Returned)
            /\ UNCHANGED svcLock
    /\ UNCHANGED <<sessions, created, ih, lock, stdin, stdout, stdioClosed,
                   gpc, guestErr, G, gcell, gtool, glast, gret, interrupt,
                   nextId, lastTool, hist, fside, fstream, feof, fsent,
                   frecv, fread, fhist, registry, regLock, guests, closed,
                   globals, scratch, home, homeCfg, solo, lastRes, ca, hmsg,
                   hcb, hcalls, hwritten, hpc, tcCall, tcPc, tcClosed, tcNow,
                   tcIn, tcOut, tcSent, faPc, faTools, faCall, faExec, faRet,
                   faSessions, faSdk, emSchema, emParams, emSig, emPc, crPc,
                   crSid, crReg, sioPc, sioStreams, sioNodes, sioHolders,
                   sioErr, sioRet>>

\* _Session.reset: with self._lock; _ensure_guest_running(); _lp_write of
\* the reset frame.  Either may raise: the exception leaves both locks.
ResetWrite(t) ==
    /\ pc[t] = "reset_lock"
    /\ lock = 0
    /\ IF EnsureGuestRunning # "ok" \/ ~CanWrite
       THEN /\ Return(t, Raised(IF EnsureGuestRunning # "ok"
                                THEN EnsureGuestRunning ELSE "closed stream"))
            /\ svcLock' = 0
            /\ UNCHANGED <<lock, stdin, hist>>
       ELSE /\ stdin' = Append(stdin, ResetFrame)
            /\ hist' = [hist EXCEPT !.bound = FALSE]
            /\ lock' = t
            /\ pc' = [pc EXCEPT ![t] = "reset_read"]
            /\ UNCHANGED <<svcLock, ret, op, call, timeout, timer, timed_out,
                           resp, errText, note>>
    /\ UNCHANGED <<sessions, created, ih, stdout, stdioClosed, gpc, guestErr,
                   G, gcell, gtool, glast, gret, interrupt, nCalls, nextId,
                   lastTool, fside, fstream, feof, fsent, frecv, fread,
                   fhist, registry, regLock, guests, closed, globals,
                   scratch, home, homeCfg, solo, lastRes, ca, hmsg, hcb,
                   hcalls, hwritten, hpc, tcCall, tcPc, tcClosed, tcNow,
                   tcIn, tcOut, tcSent, faPc, faTools, faCall, faExec, faRet,
                   faSessions, faSdk, emSchema, emParams, emSig, emPc, crPc,
                   crSid, crReg, sioPc, sioStreams, sioNodes, sioHolders,
                   sioErr, sioRet>>

\* _Session.reset: one _lp_read whose frame (or error) is ignored; return
ResetRead(t) ==
    /\ pc[t] = "reset_read"
    /\ HostRead \in {"frame", "eof_or_block"}
    /\ stdout' = IF HostRead = "frame" THEN Tail(stdout) ELSE stdout
    /\ lock' = 0
    /\ svcLock' = 0
    /\ Return(t, Returned)
    /\ UNCHANGED <<sessions, created, ih, stdin, stdioClosed, gpc, guestErr,
                   G, gcell, gtool, glast, gret, interrupt, nCalls, nextId,
                   lastTool, hist, fside, fstream, feof, fsent, frecv, fread,
                   fhist, registry, regLock, guests, closed, globals,
                   scratch, home, homeCfg, solo, lastRes, ca, hmsg, hcb,
                   hcalls, hwritten, hpc, tcCall, tcPc, tcClosed, tcNow,
                   tcIn, tcOut, tcSent, faPc, faTools, faCall, faExec, faRet,
                   faSessions, faSdk, emSchema, emParams, emSig, emPc, crPc,
                   crSid, crReg, sioPc, sioStreams, sioNodes, sioHolders,
                   sioErr, sioRet>>

\* ---------------------------- WasiService.close / close_all / _Session.close

\* WasiService.close: under the registry lock, pop the session; absent is a
\* no-op, present goes on to session.close() with the lock held
SvcClose(t) ==
    /\ svcLock = 0
    /\ IF SID \in sessions
       THEN /\ Begin(t, "close", 0)
            /\ sessions' = sessions \ {SID}
            /\ svcLock' = t
            /\ pc' = [pc EXCEPT ![t] = "close_lock"]
       ELSE /\ BeginReturn(t, "close", Returned)
            /\ UNCHANGED <<sessions, svcLock>>
    /\ UNCHANGED <<created, ih, lock, stdin, stdout, stdioClosed, gpc,
                   guestErr, G, gcell, gtool, glast, gret, interrupt, nextId,
                   lastTool, hist, fside, fstream, feof, fsent, frecv, fread,
                   fhist, registry, regLock, guests, closed, globals,
                   scratch, home, homeCfg, solo, lastRes, ca, hmsg, hcb,
                   hcalls, hwritten, hpc, tcCall, tcPc, tcClosed, tcNow,
                   tcIn, tcOut, tcSent, faPc, faTools, faCall, faExec, faRet,
                   faSessions, faSdk, emSchema, emParams, emSig, emPc, crPc,
                   crSid, crReg, sioPc, sioStreams, sioNodes, sioHolders,
                   sioErr, sioRet>>

\* WasiService.close_all: under the registry lock, close each session and
\* pop it afterwards
SvcCloseAll(t) ==
    /\ svcLock = 0
    /\ IF sessions # {}
       THEN /\ Begin(t, "close_all", 0)
            /\ svcLock' = t
            /\ pc' = [pc EXCEPT ![t] = "close_lock"]
       ELSE /\ BeginReturn(t, "close_all", Returned)
            /\ UNCHANGED svcLock
    /\ UNCHANGED <<sessions, created, ih, lock, stdin, stdout, stdioClosed,
                   gpc, guestErr, G, gcell, gtool, glast, gret, interrupt,
                   nextId, lastTool, hist, fside, fstream, feof, fsent,
                   frecv, fread, fhist, registry, regLock, guests, closed,
                   globals, scratch, home, homeCfg, solo, lastRes, ca, hmsg,
                   hcb, hcalls, hwritten, hpc, tcCall, tcPc, tcClosed, tcNow,
                   tcIn, tcOut, tcSent, faPc, faTools, faCall, faExec, faRet,
                   faSessions, faSdk, emSchema, emParams, emSig, emPc, crPc,
                   crSid, crReg, sioPc, sioStreams, sioNodes, sioHolders,
                   sioErr, sioRet>>

\* _Session.close has returned: WasiService.close releases the registry
\* lock and returns, close_all still has to pop the entry
CloseReturn(t) ==
    IF op[t] = "close_all"
    THEN /\ pc' = [pc EXCEPT ![t] = "close_pop"]
         /\ UNCHANGED <<svcLock, ret, op, call, timeout, timer, timed_out,
                        resp, errText, note>>
    ELSE /\ Return(t, Returned)
         /\ svcLock' = 0

\* _Session.close: with self._lock; _ensure_guest_running(); _lp_write of
\* the exit frame.  An exception skips to the finally: _cleanup_stdio().
CloseWrite(t) ==
    /\ pc[t] = "close_lock"
    /\ lock = 0
    /\ IF EnsureGuestRunning # "ok" \/ ~CanWrite
       THEN /\ stdioClosed' = TRUE
            /\ CloseReturn(t)
            /\ UNCHANGED <<lock, stdin, hist>>
       ELSE /\ stdin' = Append(stdin, ExitFrame)
            /\ hist' = [hist EXCEPT !.bound = FALSE]
            /\ lock' = t
            /\ pc' = [pc EXCEPT ![t] = "close_read"]
            /\ UNCHANGED <<svcLock, ret, stdioClosed, op, call, timeout,
                           timer, timed_out, resp, errText, note>>
    /\ UNCHANGED <<sessions, created, ih, stdout, gpc, guestErr, G, gcell,
                   gtool, glast, gret, interrupt, nCalls, nextId, lastTool,
                   fside, fstream, feof, fsent, frecv, fread, fhist,
                   registry, regLock, guests, closed, globals, scratch, home,
                   homeCfg, solo, lastRes, ca, hmsg, hcb, hcalls, hwritten,
                   hpc, tcCall, tcPc, tcClosed, tcNow, tcIn, tcOut, tcSent,
                   faPc, faTools, faCall, faExec, faRet, faSessions, faSdk,
                   emSchema, emParams, emSig, emPc, crPc, crSid, crReg,
                   sioPc, sioStreams, sioNodes, sioHolders, sioErr, sioRet>>

\* _Session.close: one _lp_read (frame or error ignored), then the finally:
\* _cleanup_stdio() closes the streams; the session mutex is released
CloseRead(t) ==
    /\ pc[t] = "close_read"
    /\ HostRead \in {"frame", "eof_or_block"}
    /\ stdout' = IF HostRead = "frame" THEN Tail(stdout) ELSE stdout
    /\ stdioClosed' = TRUE
    /\ lock' = 0
    /\ CloseReturn(t)
    /\ UNCHANGED <<sessions, created, ih, stdin, gpc, guestErr, G, gcell,
                   gtool, glast, gret, interrupt, nCalls, nextId, lastTool,
                   hist, fside, fstream, feof, fsent, frecv, fread, fhist,
                   registry, regLock, guests, closed, globals, scratch, home,
                   homeCfg, solo, lastRes, ca, hmsg, hcb, hcalls, hwritten,
                   hpc, tcCall, tcPc, tcClosed, tcNow, tcIn, tcOut, tcSent,
                   faPc, faTools, faCall, faExec, faRet, faSessions, faSdk,
                   emSchema, emParams, emSig, emPc, crPc, crSid, crReg,
                   sioPc, sioStreams, sioNodes, sioHolders, sioErr, sioRet>>

\* mutant: close_all leaves the closed session in the registry
CloseAllPop_KeepsEntry(t) ==
    /\ pc[t] = "close_pop"
    /\ svcLock' = 0
    /\ Return(t, Returned)
    /\ UNCHANGED <<sessions, created, ih, lock, stdin, stdout, stdioClosed,
                   gpc, guestErr, G, gcell, gtool, glast, gret, interrupt,
                   nCalls, nextId, lastTool, hist, fside, fstream, feof,
                   fsent, frecv, fread, fhist, registry, regLock, guests,
                   closed, globals, scratch, home, homeCfg, solo, lastRes,
                   ca, hmsg, hcb, hcalls, hwritten, hpc, tcCall, tcPc,
                   tcClosed, tcNow, tcIn, tcOut, tcSent, faPc, faTools,
                   faCall, faExec, faRet, faSessions, faSdk, emSchema,
                   emParams, emSig, emPc, crPc, crSid, crReg, sioPc,
                   sioStreams, sioNodes, sioHolders, sioErr, sioRet>>

\* WasiService.close_all: finally self._sessions.pop(sid, None); the
\* registry lock is released when the loop is over
CloseAllPop(t) ==
    /\ pc[t] = "close_pop"
    /\ sessions' = sessions \ {SID}
    /\ svcLock' = 0
    /\ Return(t, Returned)
    /\ UNCHANGED <<created, ih, lock, stdin, stdout, stdioClosed, gpc,
                   guestErr, G, gcell, gtool, glast, gret, interrupt, nCalls,
                   nextId, lastTool, hist, fside, fstream, feof, fsent,
                   frecv, fread, fhist, registry, regLock, guests, closed,
                   globals, scratch, home, homeCfg, solo, lastRes, ca, hmsg,
                   hcb, hcalls, hwritten, hpc, tcCall, tcPc, tcClosed, tcNow,
                   tcIn, tcOut, tcSent, faPc, faTools, faCall, faExec, faRet,
                   faSessions, faSdk, emSchema, emParams, emSig, emPc, crPc,
                   crSid, crReg, sioPc, sioStreams, sioNodes, sioHolders,
                   sioErr, sioRet>>

\* ------------------------------------------------------------------ guest

\* guest lp_write on a stdout whose read end the host has closed raises
\* BrokenPipeError
GuestCanWrite == ~stdioClosed

\* mutant: run_cell executes the cell in a namespace of its own
RunCellGlobals_OwnNamespace(g) == g

\* run_cell: exec(compile(src, "<cell>", "exec"), G, G): the cell's
\* assignments are bindings of G
RunCellGlobals(g) == "bound"

\* main loop, reset: G.clear(); G["__name__"] = "__main__"
ResetGlobals(g) == "fresh"

\* guest.py main loop: lp_read() returns a frame, dispatched on its type.
\* An exec_request starts run_cell; reset and exit are acknowledged; exit
\* and a failed lp_write leave the loop.
GuestRead ==
    /\ gpc = "read"
    /\ stdin # <<>>
    /\ stdin' = Tail(stdin)
    /\ LET f == Head(stdin) IN
       CASE f.type = "exec_request" ->
              /\ gpc' = "cell"
              /\ gcell' = f.call
              /\ glast' = "none"
              /\ G' = RunCellGlobals(G)
              /\ hist' = [hist EXCEPT !.running = @ + 1, !.bound = TRUE]
              /\ UNCHANGED stdout
         [] f.type = "tool_result" ->
              UNCHANGED <<gpc, gcell, glast, hist, stdout, G>>
         [] f.type = "exit" ->
              /\ gpc' = "exiting"
              /\ stdout' = IF GuestCanWrite THEN Append(stdout, Ack) ELSE stdout
              /\ UNCHANGED <<gcell, glast, hist, G>>
         [] OTHER ->
              /\ gpc' = IF GuestCanWrite THEN "read" ELSE "exiting"
              /\ stdout' = IF ~GuestCanWrite THEN stdout
                           ELSE IF f.type = "reset" THEN Append(stdout, Ack)
                           ELSE Append(stdout, UnknownType)
              /\ G' = IF f.type = "reset" THEN ResetGlobals(G) ELSE G
              /\ UNCHANGED <<gcell, glast, hist>>
    /\ UNCHANGED <<sessions, svcLock, created, ih, lock, stdioClosed,
                   guestErr, gtool, gret, interrupt, pc, op, call, timeout,
                   timer, timed_out, resp, errText, note, ret, nCalls,
                   nextId, lastTool, fside, fstream, feof, fsent, frecv,
                   fread, fhist, registry, regLock, guests, closed, globals,
                   scratch, home, homeCfg, solo, lastRes, ca, hmsg, hcb,
                   hcalls, hwritten, hpc, tcCall, tcPc, tcClosed, tcNow,
                   tcIn, tcOut, tcSent, faPc, faTools, faCall, faExec, faRet,
                   faSessions, faSdk, emSchema, emParams, emSig, emPc, crPc,
                   crSid, crReg, sioPc, sioStreams, sioNodes, sioHolders,
                   sioErr, sioRet>>

\* guest.py main loop: lp_read() returns None at end of file; the loop ends
GuestEof ==
    /\ gpc = "read"
    /\ stdin = <<>>
    /\ stdioClosed
    /\ gpc' = "exiting"
    /\ UNCHANGED <<sessions, svcLock, created, ih, lock, stdin, stdout,
                   stdioClosed, guestErr, G, gcell, gtool, glast, gret,
                   interrupt, pc, op, call, timeout, timer, timed_out, resp,
                   errText, note, ret, nCalls, nextId, lastTool, hist, fside,
                   fstream, feof, fsent, frecv, fread, fhist, registry,
                   regLock, guests, closed, globals, scratch, home, homeCfg,
                   solo, lastRes, ca, hmsg, hcb, hcalls, hwritten, hpc,
                   tcCall, tcPc, tcClosed, tcNow, tcIn, tcOut, tcSent, faPc,
                   faTools, faCall, faExec, faRet, faSessions, faSdk,
                   emSchema, emParams, emSig, emPc, crPc, crSid, crReg,
                   sioPc, sioStreams, sioNodes, sioHolders, sioErr, sioRet>>

\* _run_guest: _start has returned, the guest thread is no longer alive
GuestExit ==
    /\ gpc = "exiting"
    /\ gpc' = "dead"
    /\ UNCHANGED <<sessions, svcLock, created, ih, lock, stdin, stdout,
                   stdioClosed, guestErr, G, gcell, gtool, glast, gret,
                   interrupt, pc, op, call, timeout, timer, timed_out, resp,
                   errText, note, ret, nCalls, nextId, lastTool, hist, fside,
                   fstream, feof, fsent, frecv, fread, fhist, registry,
                   regLock, guests, closed, globals, scratch, home, homeCfg,
                   solo, lastRes, ca, hmsg, hcb, hcalls, hwritten, hpc,
                   tcCall, tcPc, tcClosed, tcNow, tcIn, tcOut, tcSent, faPc,
                   faTools, faCall, faExec, faRet, faSessions, faSdk,
                   emSchema, emParams, emSig, emPc, crPc, crSid, crReg,
                   sioPc, sioStreams, sioNodes, sioHolders, sioErr, sioRet>>

\* The cell calls tool_call: ToolRuntime.invoke draws a fresh id, writes the
\* tool_request and awaits the response.  A failed lp_write raises into the
\* cell.
GuestToolCall ==
    /\ gpc = "cell"
    /\ nextId <= MaxTools
    /\ nextId' = nextId + 1
    /\ IF GuestCanWrite
       THEN /\ stdout' = Append(stdout, ToolRequest(nextId, gcell))
            /\ gpc' = "await"
            /\ gtool' = nextId
            /\ gret' = [id |-> nextId, status |-> "pending", got |-> NoFrame]
            /\ UNCHANGED glast
       ELSE /\ glast' = "BrokenPipeError"
            /\ gret' = [id |-> nextId, status |-> "raised", got |-> NoFrame]
            /\ UNCHANGED <<stdout, gpc, gtool>>
    /\ UNCHANGED <<sessions, svcLock, created, ih, lock, stdin, stdioClosed,
                   guestErr, G, gcell, interrupt, pc, op, call, timeout,
                   timer, timed_out, resp, errText, note, ret, nCalls,
                   lastTool, hist, fside, fstream, feof, fsent, frecv, fread,
                   fhist, registry, regLock, guests, closed, globals,
                   scratch, home, homeCfg, solo, lastRes, ca, hmsg, hcb,
                   hcalls, hwritten, hpc, tcCall, tcPc, tcClosed, tcNow,
                   tcIn, tcOut, tcSent, faPc, faTools, faCall, faExec, faRet,
                   faSessions, faSdk, emSchema, emParams, emSig, emPc, crPc,
                   crSid, crReg, sioPc, sioStreams, sioNodes, sioHolders,
                   sioErr, sioRet>>

\* mutant: the id of the tool_result is not compared with the request's
AwaitOutcome_AnyId(f, id) ==
    IF f.type # "tool_result" THEN "raised" ELSE "returned"

\* ToolRuntime._await_response: what tool_call does with the frame it read:
\* return it, or raise ToolCallError on another type or another id
AwaitOutcome(f, id) ==
    IF f.type # "tool_result" THEN "raised"
    ELSE IF f.id # id THEN "raised"
    ELSE "returned"

\* ToolRuntime._await_response reads the next frame of stdin
GuestAwait ==
    /\ gpc = "await"
    /\ stdin # <<>>
    /\ stdin' = Tail(stdin)
    /\ LET f == Head(stdin) IN
         /\ gret' = [id |-> gtool, status |-> AwaitOutcome(f, gtool), got |-> f]
         /\ glast' = IF AwaitOutcome(f, gtool) = "returned" THEN "ok"
                     ELSE "ToolCallError"
         /\ hist' = [hist EXCEPT !.midCell = @ \/ f.type = "exec_request"]
    /\ gpc' = "cell"
    /\ gtool' = 0
    /\ UNCHANGED <<sessions, svcLock, created, ih, lock, stdout, stdioClosed,
                   guestErr, G, gcell, interrupt, pc, op, call, timeout,
                   timer, timed_out, resp, errText, note, ret, nCalls,
                   nextId, lastTool, fside, fstream, feof, fsent, frecv,
                   fread, fhist, registry, regLock, guests, closed, globals,
                   scratch, home, homeCfg, solo, lastRes, ca, hmsg, hcb,
                   hcalls, hwritten, hpc, tcCall, tcPc, tcClosed, tcNow,
                   tcIn, tcOut, tcSent, faPc, faTools, faCall, faExec, faRet,
                   faSessions, faSdk, emSchema, emParams, emSig, emPc, crPc,
                   crSid, crReg, sioPc, sioStreams, sioNodes, sioHolders,
                   sioErr, sioRet>>

\* run_cell: the error body of the result: null when ok, else the exception
CellError(ok, last) ==
    IF ok THEN "none"
    ELSE IF last \in {"ToolCallError", "BrokenPipeError"} THEN last
    ELSE "Error"

\* run_cell returns and the main loop writes its result as exec_result; a
\* failed lp_write leaves the loop
GuestCellEnd ==
    /\ gpc = "cell"
    /\ \E ok \in BOOLEAN :
         IF GuestCanWrite
         THEN /\ stdout' = Append(stdout,
                      Frame("exec_result", 0, gcell, ok, CellError(ok, glast)))
              /\ hist' = [hist EXCEPT !.unanswered = @ - 1, !.running = @ - 1]
              /\ gpc' = "read"
         ELSE /\ gpc' = "exiting"
              /\ UNCHANGED <<stdout, hist>>
    /\ gcell' = 0
    /\ glast' = "none"
    /\ UNCHANGED <<sessions, svcLock, created, ih, lock, stdin, stdioClosed,
                   guestErr, G, gtool, gret, interrupt, pc, op, call,
                   timeout, timer, timed_out, resp, errText, note, ret,
                   nCalls, nextId, lastTool, fside, fstream, feof, fsent,
                   frecv, fread, fhist, registry, regLock, guests, closed,
                   globals, scratch, home, homeCfg, solo, lastRes, ca, hmsg,
                   hcb, hcalls, hwritten, hpc, tcCall, tcPc, tcClosed, tcNow,
                   tcIn, tcOut, tcSent, faPc, faTools, faCall, faExec, faRet,
                   faSessions, faSdk, emSchema, emParams, emSig, emPc, crPc,
                   crSid, crReg, sioPc, sioStreams, sioNodes, sioHolders,
                   sioErr, sioRet>>

\* _run_guest: _start raises while a cell runs (the cell ends the process or
\* raises past run_cell); the exception is kept in _guest_error
GuestCrash ==
    /\ gpc = "cell"
    /\ gpc' = "dead"
    /\ guestErr' = "Crash"
    /\ UNCHANGED <<sessions, svcLock, created, ih, lock, stdin, stdout,
                   stdioClosed, G, gcell, gtool, glast, gret, interrupt, pc,
                   op, call, timeout, timer, timed_out, resp, errText, note,
                   ret, nCalls, nextId, lastTool, hist, fside, fstream, feof,
                   fsent, frecv, fread, fhist, registry, regLock, guests,
                   closed, globals, scratch, home, homeCfg, solo, lastRes,
                   ca, hmsg, hcb, hcalls, hwritten, hpc, tcCall, tcPc,
                   tcClosed, tcNow, tcIn, tcOut, tcSent, faPc, faTools,
                   faCall, faExec, faRet, faSessions, faSdk, emSchema,
                   emParams, emSig, emPc, crPc, crSid, crReg, sioPc,
                   sioStreams, sioNodes, sioHolders, sioErr, sioRet>>

\* _run_guest: the engine delivers the interrupt; _start raises
\* wasmtime.Trap in the guest thread, which keeps it in _guest_error
GuestTrap ==
    /\ interrupt
    /\ gpc \in {"read", "cell", "await", "exiting"}
    /\ interrupt' = FALSE
    /\ gpc' = "dead"
    /\ guestErr' = "Trap"
    /\ UNCHANGED <<sessions, svcLock, created, ih, lock, stdin, stdout,
                   stdioClosed, G, gcell, gtool, glast, gret, pc, op, call,
                   timeout, timer, timed_out, resp, errText, note, ret,
                   nCalls, nextId, lastTool, hist, fside, fstream, feof,
                   fsent, frecv, fread, fhist, registry, regLock, guests,
                   closed, globals, scratch, home, homeCfg, solo, lastRes,
                   ca, hmsg, hcb, hcalls, hwritten, hpc, tcCall, tcPc,
                   tcClosed, tcNow, tcIn, tcOut, tcSent, faPc, faTools,
                   faCall, faExec, faRet, faSessions, faSdk, emSchema,
                   emParams, emSig, emPc, crPc, crSid, crReg, sioPc,
                   sioStreams, sioNodes, sioHolders, sioErr, sioRet>>

\* ------------------------------------------------------------------- Spec
Next ==
    \/ \E t \in Threads : CreateSession(t)
    \/ \E t \in Threads : SvcExecCell(t)
    \/ \E t \in Threads : ExecAcquire(t)
    \/ \E t \in Threads : TimerFire(t)
    \/ \E t \in Threads : ExecWrite(t)
    \/ \E t \in Threads : ExecToolRequest(t)
    \/ \E t \in Threads : ExecRecvResult(t)
    \/ \E t \in Threads : ExecEof(t)
    \/ \E t \in Threads : ExecFinish(t)
    \/ \E t \in Threads : SvcReset(t)
    \/ \E t \in Threads : ResetWrite(t)
    \/ \E t \in Threads : ResetRead(t)
    \/ \E t \in Threads : SvcClose(t)
    \/ \E t \in Threads : SvcCloseAll(t)
    \/ \E t \in Threads : CloseWrite(t)
    \/ \E t \in Threads : CloseRead(t)
    \/ \E t \in Threads : CloseAllPop(t)
    \/ GuestRead
    \/ GuestEof
    \/ GuestExit
    \/ GuestToolCall
    \/ GuestAwait
    \/ GuestCellEnd
    \/ GuestCrash
    \/ GuestTrap


\* ================================================================ framing
\* The length-prefixed frame codec of both sides, at the level of bytes:
\* host _lp_write / _lp_read (host.py) and guest lp_write / lp_read
\* (guest_helpers.py).  A byte stream is a sequence of runs [b, n]: n
\* bytes b.  The JSON text of an object is "{", its body bytes, "}".

Run(b, n) == [b |-> b, n |-> n]

DigitChars == <<"0", "1", "2", "3", "4", "5", "6", "7", "8", "9">>

\* str(len(payload)): the decimal digits of n, one run per digit
NumDigits(n) == CHOOSE k \in 1..10 : n < 10 ^ k /\ (k = 1 \/ n >= 10 ^ (k - 1))
Digits(n) ==
    [i \in 1..NumDigits(n) |->
        Run(DigitChars[((n \div (10 ^ (NumDigits(n) - i))) % 10) + 1], 1)]

\* a JSON object: what tells it from another (the byte its body is made
\* of), and the length of its text
Obj(id, len) == [id |-> id, len |-> len]
BodyBytes == <<"a", "b">>
BadJson == Obj(0, 0)

\* json.dumps(obj).encode("utf-8")
Payload(o) ==
    IF o.len = 2 THEN <<Run("{", 1), Run("}", 1)>>
    ELSE <<Run("{", 1), Run(BodyBytes[o.id], o.len - 2), Run("}", 1)>>

\* _lp_write / lp_write: header f"{len(payload)}\n", then the payload
Encode(o) == Digits(o.len) \o <<Run("\n", 1)>> \o Payload(o)

\* number of bytes of a stream
RECURSIVE Bytes(_)
Bytes(s) == IF s = <<>> THEN 0 ELSE Head(s).n + Bytes(Tail(s))

\* the first k bytes of a stream, and the stream without them
RECURSIVE TakeBytes(_, _)
TakeBytes(s, k) ==
    IF k <= 0 \/ s = <<>> THEN <<>>
    ELSE IF Head(s).n <= k THEN <<Head(s)>> \o TakeBytes(Tail(s), k - Head(s).n)
    ELSE <<Run(Head(s).b, k)>>

RECURSIVE DropBytes(_, _)
DropBytes(s, k) ==
    IF k <= 0 \/ s = <<>> THEN s
    ELSE IF Head(s).n <= k THEN DropBytes(Tail(s), k - Head(s).n)
    ELSE <<Run(Head(s).b, Head(s).n - k)>> \o Tail(s)

\* data += chunk: adjacent runs of the same byte are one run
RECURSIVE Norm(_)
Norm(s) ==
    IF Len(s) < 2 THEN s
    ELSE IF s[1].b = s[2].b
         THEN Norm(<<Run(s[1].b, s[1].n + s[2].n)>> \o Tail(Tail(s)))
         ELSE <<s[1]>> \o Norm(Tail(s))

\* json.loads(data): the object, or BadJson (JSONDecodeError, a ValueError)
Decode(data) ==
    LET d == Norm(data) IN
    IF d = <<Run("{", 1), Run("}", 1)>> THEN Obj(0, 2)
    ELSE IF Len(d) = 3 /\ d[1] = Run("{", 1) /\ d[3] = Run("}", 1)
            /\ \E i \in 1..Len(BodyBytes) : d[2].b = BodyBytes[i]
         THEN Obj(CHOOSE i \in 1..Len(BodyBytes) : d[2].b = BodyBytes[i],
                  d[2].n + 2)
    ELSE BadJson

\* int(): the header is an optional "-" and decimal digits
IsDigits(h) == h # <<>> /\ \A i \in 1..Len(h) : \E d \in 1..10 : h[i] = DigitChars[d]
IsInt(h) == IsDigits(h) \/ (h # <<>> /\ h[1] = "-" /\ IsDigits(Tail(h)))
DigitVal(c) == (CHOOSE d \in 1..10 : DigitChars[d] = c) - 1
RECURSIVE DecVal(_, _)
DecVal(h, acc) ==
    IF h = <<>> THEN acc ELSE DecVal(Tail(h), 10 * acc + DigitVal(Head(h)))
\* the digits of h from its first non-zero digit on
Significant(h) ==
    IF \A i \in 1..Len(h) : h[i] = "0" THEN <<>>
    ELSE SubSeq(h, CHOOSE i \in 1..Len(h) :
                       h[i] # "0" /\ \A j \in 1..(i - 1) : h[j] = "0",
                Len(h))
IntVal(h) == IF h[1] = "-" THEN 0 - DecVal(Significant(Tail(h)), 0)
             ELSE DecVal(Significant(h), 0)

\* n bytes c read one after the other
Copies(c, n) == [i \in 1..n |-> c]

\* host _lp_read, header loop: read(1) until the header ends with "\n";
\* more than 64 bytes without one is "invalid frame header".  s is what the
\* stream still holds, h the header bytes read so far.
RECURSIVE HostHeader(_, _, _)
HostHeader(s, h, eof) ==
    IF s = <<>> THEN [res |-> IF eof THEN "eof" ELSE "wait", h |-> h, rest |-> s]
    ELSE LET c == Head(s).b
             room == HeaderMax - Len(h)
         IN IF c = "\n" THEN [res |-> "ok", h |-> h, rest |-> DropBytes(s, 1)]
            ELSE IF Head(s).n > room
                 THEN [res |-> "invalid", h |-> h \o Copies(c, room + 1),
                       rest |-> DropBytes(s, room + 1)]
            ELSE HostHeader(Tail(s), h \o Copies(c, Head(s).n), eof)

\* guest lp_read, header loop: read(1) until "\n"; end of file is None; no
\* limit on the header's length
RECURSIVE GuestHeader(_, _, _)
GuestHeader(s, h, eof) ==
    IF s = <<>> THEN [res |-> IF eof THEN "eof" ELSE "wait", h |-> h, rest |-> s]
    ELSE LET c == Head(s).b
         IN IF c = "\n" THEN [res |-> "ok", h |-> h, rest |-> DropBytes(s, 1)]
            ELSE GuestHeader(Tail(s), h \o Copies(c, Head(s).n), eof)

\* What the loop that called the read does with what it got.
\*   host _wait_for_exec_result: a non-dict is skipped, a dict is handled or
\*     returned, an exception leaves the loop (exec_cell reports it);
\*   guest main loop: `if not req: break` ends the loop on None and on {},
\*     an exception from lp_read is reported and ends the loop;
\*   guest _await_response: None and {} are skipped, an exception leaves
\*     tool_call.
Reaction(side, kind, o) ==
    CASE kind = "error" -> IF side = "guest_main" THEN "terminate" ELSE "error"
      [] kind = "null" -> IF side = "guest_main" THEN "terminate" ELSE "skip"
      [] OTHER -> IF side = "host" THEN "deliver"
                  ELSE IF o = Obj(0, 2)
                       THEN (IF side = "guest_main" THEN "terminate" ELSE "skip")
                  ELSE "deliver"

\* one result of the read operation, with what the frame it came from was:
\* bytes of header read, whether they were an integer, the length declared,
\* whether the stream ended inside the payload
Result(side, kind, o, h, trunc) ==
    [kind |-> kind, obj |-> o, react |-> Reaction(side, kind, o),
     hlen |-> Len(h), int |-> IsInt(h),
     declared |-> IF IsInt(h) THEN IntVal(h) ELSE 0, trunc |-> trunc]

NoRead == [ph |-> "header", need |-> 0, data |-> <<>>, h |-> <<>>]

Readers == {"host", "guest_main", "guest_await"}

\* objects the writers are given, and raw frames a peer can put on a stream
Objects == {Obj(0, 2), Obj(1, 11), Obj(2, 11), Obj(1, MaxBytes)}
RawFrames ==
    { Encode(Obj(1, MaxBytes + 1)),
      <<Run("0", 1), Run("\n", 1)>>,
      <<Run("-", 1), Run("1", 1), Run("\n", 1)>>,
      <<Run("x", 1), Run("\n", 1), Run("{", 1), Run("}", 1)>>,
      <<Run("\n", 1)>>,
      <<Run("0", HeaderMax), Run("2", 1), Run("\n", 1), Run("{", 1), Run("}", 1)>>,
      <<Run("1", 1), Run("1", 1), Run("\n", 1), Run("{", 1), Run("a", 3)>> }

FramingIdle ==
    /\ fside = "none"
    /\ fstream = <<>>
    /\ feof = FALSE
    /\ fsent = <<>>
    /\ frecv = <<>>
    /\ fread = NoRead
    /\ fhist = [writes |-> 0, raw |-> FALSE, torn |-> FALSE, end |-> "none"]

\* room left in the FIFO the host writes to: its write end is opened
\* O_NONBLOCK (_FifoWriter); the guest's stdout is written with blocking
\* writes
Free == IF Bytes(fstream) >= PipeCapacity THEN 0
        ELSE PipeCapacity - Bytes(fstream)

\* _lp_write (reader a guest loop) or lp_write (reader the host) of object
\* o.  _FifoWriter.write: os.write on the non-blocking FIFO writes what the
\* pipe has room for; when the reader has not made room the next os.write
\* raises BlockingIOError and the frame stays cut on the stream.  A frame
\* larger than the room left goes through whole when the reader is there to
\* make room while it is written.
LpWrite(o) ==
    /\ fside \in Readers
    /\ ~feof
    /\ fhist.writes < MaxFrames
    /\ \/ /\ fside = "host" \/ Bytes(Encode(o)) <= Free \/ fread.ph # "stopped"
          /\ fstream' = fstream \o Encode(o)
          /\ fsent' = Append(fsent, o)
          /\ fhist' = [fhist EXCEPT !.writes = @ + 1]
       \/ /\ fside # "host"
          /\ Bytes(Encode(o)) > Free
          /\ fstream' = fstream \o TakeBytes(Encode(o), Free)
          /\ fsent' = fsent
          /\ fhist' = [fhist EXCEPT !.writes = @ + 1, !.torn = TRUE]
    /\ UNCHANGED <<sessions, svcLock, created, ih, lock, stdin, stdout,
                   stdioClosed, gpc, guestErr, G, gcell, gtool, glast, gret,
                   interrupt, pc, op, call, timeout, timer, timed_out, resp,
                   errText, note, ret, nCalls, nextId, lastTool, hist, fside,
                   feof, frecv, fread, registry, regLock, guests, closed,
                   globals, scratch, home, homeCfg, solo, lastRes, ca, hmsg,
                   hcb, hcalls, hwritten, hpc, tcCall, tcPc, tcClosed, tcNow,
                   tcIn, tcOut, tcSent, faPc, faTools, faCall, faExec, faRet,
                   faSessions, faSdk, emSchema, emParams, emSig, emPc, crPc,
                   crSid, crReg, sioPc, sioStreams, sioNodes, sioHolders,
                   sioErr, sioRet>>

\* a peer that is not lp_write puts the bytes of a raw frame on the stream
RawWrite(r) ==
    /\ fside \in Readers
    /\ ~feof
    /\ fhist.writes < MaxFrames
    /\ fstream' = fstream \o r
    /\ fhist' = [fhist EXCEPT !.writes = @ + 1, !.raw = TRUE]
    /\ UNCHANGED <<sessions, svcLock, created, ih, lock, stdin, stdout,
                   stdioClosed, gpc, guestErr, G, gcell, gtool, glast, gret,
                   interrupt, pc, op, call, timeout, timer, timed_out, resp,
                   errText, note, ret, nCalls, nextId, lastTool, hist, fside,
                   feof, fsent, frecv, fread, registry, regLock, guests,
                   closed, globals, scratch, home, homeCfg, solo, lastRes,
                   ca, hmsg, hcb, hcalls, hwritten, hpc, tcCall, tcPc,
                   tcClosed, tcNow, tcIn, tcOut, tcSent, faPc, faTools,
                   faCall, faExec, faRet, faSessions, faSdk, emSchema,
                   emParams, emSig, emPc, crPc, crSid, crReg, sioPc,
                   sioStreams, sioNodes, sioHolders, sioErr, sioRet>>

\* the writing side closes its end of the stream
CloseWriter ==
    /\ fside \in Readers
    /\ ~feof
    /\ feof' = TRUE
    /\ UNCHANGED <<sessions, svcLock, created, ih, lock, stdin, stdout,
                   stdioClosed, gpc, guestErr, G, gcell, gtool, glast, gret,
                   interrupt, pc, op, call, timeout, timer, timed_out, resp,
                   errText, note, ret, nCalls, nextId, lastTool, hist, fside,
                   fstream, fsent, frecv, fread, fhist, registry, regLock,
                   guests, closed, globals, scratch, home, homeCfg, solo,
                   lastRes, ca, hmsg, hcb, hcalls, hwritten, hpc, tcCall,
                   tcPc, tcClosed, tcNow, tcIn, tcOut, tcSent, faPc, faTools,
                   faCall, faExec, faRet, faSessions, faSdk, emSchema,
                   emParams, emSig, emPc, crPc, crSid, crReg, sioPc,
                   sioStreams, sioNodes, sioHolders, sioErr, sioRet>>

\* the read operation ends with a result: back to the header loop unless
\* the caller's loop is over
Deliver(res) ==
    /\ frecv' = Append(frecv, res)
    /\ fread' = [NoRead EXCEPT !.ph = IF res.react \in {"error", "terminate"}
                                      THEN "stopped" ELSE "header"]

\* at end of file before a header: host raises EOFError("guest stdout
\* closed"), guest lp_read returns None
AtEof ==
    /\ fread' = [NoRead EXCEPT !.ph = "stopped"]
    /\ fhist' = [fhist EXCEPT !.end = Reaction(fside, IF fside = "host" THEN "error" ELSE "null", Obj(0, 0))]
    /\ UNCHANGED frecv

\* host _lp_read: header loop, int(header.strip() or b"0"), length check
HostReadHeader ==
    /\ fside = "host"
    /\ fread.ph = "header"
    /\ LET r == HostHeader(fstream, <<>>, feof) IN
         /\ r.res # "wait"
         /\ fstream' = r.rest
         /\ IF r.res = "eof" THEN AtEof
            ELSE /\ UNCHANGED fhist
                 /\ IF r.res = "invalid" \/ (r.h # <<>> /\ ~IsInt(r.h))
                    THEN Deliver(Result(fside, "error", Obj(0, 0), r.h, FALSE))
                    ELSE LET length == IF r.h = <<>> THEN 0 ELSE IntVal(r.h) IN
                         IF length < 0 \/ length > MaxBytes
                         THEN Deliver(Result(fside, "error", Obj(0, 0), r.h, FALSE))
                         ELSE /\ fread' = [ph |-> "payload", need |-> length,
                                           data |-> <<>>, h |-> r.h]
                              /\ UNCHANGED frecv
    /\ UNCHANGED <<sessions, svcLock, created, ih, lock, stdin, stdout,
                   stdioClosed, gpc, guestErr, G, gcell, gtool, glast, gret,
                   interrupt, pc, op, call, timeout, timer, timed_out, resp,
                   errText, note, ret, nCalls, nextId, lastTool, hist, fside,
                   feof, fsent, registry, regLock, guests, closed, globals,
                   scratch, home, homeCfg, solo, lastRes, ca, hmsg, hcb,
                   hcalls, hwritten, hpc, tcCall, tcPc, tcClosed, tcNow,
                   tcIn, tcOut, tcSent, faPc, faTools, faCall, faExec, faRet,
                   faSessions, faSdk, emSchema, emParams, emSig, emPc, crPc,
                   crSid, crReg, sioPc, sioStreams, sioNodes, sioHolders,
                   sioErr, sioRet>>

\* guest lp_read: header loop, int(header.decode("ascii")), `if not n`
GuestReadHeader ==
    /\ fside \in {"guest_main", "guest_await"}
    /\ fread.ph = "header"
    /\ LET r == GuestHeader(fstream, <<>>, feof) IN
         /\ r.res # "wait"
         /\ fstream' = r.rest
         /\ IF r.res = "eof" THEN AtEof
            ELSE /\ UNCHANGED fhist
                 /\ IF ~IsInt(r.h)
                    THEN Deliver(Result(fside, "error", Obj(0, 0), r.h, FALSE))
                    ELSE IF IntVal(r.h) = 0
                    THEN Deliver(Result(fside, "null", Obj(0, 0), r.h, FALSE))
                    ELSE /\ fread' = [ph |-> "payload", need |-> IntVal(r.h),
                                      data |-> <<>>, h |-> r.h]
                         /\ UNCHANGED frecv
    /\ UNCHANGED <<sessions, svcLock, created, ih, lock, stdin, stdout,
                   stdioClosed, gpc, guestErr, G, gcell, gtool, glast, gret,
                   interrupt, pc, op, call, timeout, timer, timed_out, resp,
                   errText, note, ret, nCalls, nextId, lastTool, hist, fside,
                   feof, fsent, registry, regLock, guests, closed, globals,
                   scratch, home, homeCfg, solo, lastRes, ca, hmsg, hcb,
                   hcalls, hwritten, hpc, tcCall, tcPc, tcClosed, tcNow,
                   tcIn, tcOut, tcSent, faPc, faTools, faCall, faExec, faRet,
                   faSessions, faSdk, emSchema, emParams, emSig, emPc, crPc,
                   crSid, crReg, sioPc, sioStreams, sioNodes, sioHolders,
                   sioErr, sioRet>>

\* both payload loops: while len(data) < length: chunk = read(length -
\* len(data)); an empty chunk is the end of the stream inside the frame.
\* A read returns what is there, the first one possibly a single byte.
ReadChunk ==
    /\ fside \in Readers
    /\ fread.ph = "payload"
    /\ Bytes(fread.data) < fread.need
    /\ IF fstream = <<>>
       THEN /\ feof
            /\ Deliver(Result(fside, "error", Obj(0, 0), fread.h, TRUE))
            /\ UNCHANGED fstream
       ELSE LET want == fread.need - Bytes(fread.data)
                m == IF Bytes(fstream) < want THEN Bytes(fstream) ELSE want
            IN \E k \in {m} \cup (IF fread.data = <<>> THEN {1} ELSE {}) :
                 /\ fread' = [fread EXCEPT !.data = @ \o TakeBytes(fstream, k)]
                 /\ fstream' = DropBytes(fstream, k)
                 /\ UNCHANGED frecv
    /\ UNCHANGED <<sessions, svcLock, created, ih, lock, stdin, stdout,
                   stdioClosed, gpc, guestErr, G, gcell, gtool, glast, gret,
                   interrupt, pc, op, call, timeout, timer, timed_out, resp,
                   errText, note, ret, nCalls, nextId, lastTool, hist, fside,
                   feof, fsent, fhist, registry, regLock, guests, closed,
                   globals, scratch, home, homeCfg, solo, lastRes, ca, hmsg,
                   hcb, hcalls, hwritten, hpc, tcCall, tcPc, tcClosed, tcNow,
                   tcIn, tcOut, tcSent, faPc, faTools, faCall, faExec, faRet,
                   faSessions, faSdk, emSchema, emParams, emSig, emPc, crPc,
                   crSid, crReg, sioPc, sioStreams, sioNodes, sioHolders,
                   sioErr, sioRet>>

\* both sides: the payload is complete: json.loads
ReadDecode ==
    /\ fside \in Readers
    /\ fread.ph = "payload"
    /\ Bytes(fread.data) >= fread.need
    /\ LET o == Decode(fread.data) IN
         IF o = BadJson
         THEN Deliver(Result(fside, "error", Obj(0, 0), fread.h, FALSE))
         ELSE Deliver(Result(fside, "obj", o, fread.h, FALSE))
    /\ UNCHANGED <<sessions, svcLock, created, ih, lock, stdin, stdout,
                   stdioClosed, gpc, guestErr, G, gcell, gtool, glast, gret,
                   interrupt, pc, op, call, timeout, timer, timed_out, resp,
                   errText, note, ret, nCalls, nextId, lastTool, hist, fside,
                   fstream, feof, fsent, fhist, registry, regLock, guests,
                   closed, globals, scratch, home, homeCfg, solo, lastRes,
                   ca, hmsg, hcb, hcalls, hwritten, hpc, tcCall, tcPc,
                   tcClosed, tcNow, tcIn, tcOut, tcSent, faPc, faTools,
                   faCall, faExec, faRet, faSessions, faSdk, emSchema,
                   emParams, emSig, emPc, crPc, crSid, crReg, sioPc,
                   sioStreams, sioNodes, sioHolders, sioErr, sioRet>>

NextFraming ==
    \/ \E o \in Objects : LpWrite(o)
    \/ \E r \in RawFrames : RawWrite(r)
    \/ CloseWriter
    \/ HostReadHeader
    \/ GuestReadHeader
    \/ ReadChunk
    \/ ReadDecode

\* ================================================== several sessions
\* WasiService with several sessions.  What a cell can reach is its guest's
\* G, its session's scratch directory (preopened by _Session.__init__) and
\* the interpreter home (preopened by _setup_python_runtime).  One session
\* alone is the subject of Spec; here every call on a session is one step.

Sids == 1..NumSessions

\* cells: "write" binds a global, writes a file in the scratch directory and
\* a file under the interpreter home; "read" returns what it finds of each
Cells == {"write", "read"}

NoData == [G |-> 0, scratch |-> 0, home |-> 0]
NoLast == [sid |-> 0, res |-> NoData, solo |-> NoData]
NoCloseAll == [st |-> "idle", snap |-> {}, todo |-> <<>>, failed |-> {}]

SeqSet(q) == {q[i] : i \in 1..Len(q)}

RECURSIVE Without(_, _)
Without(q, s) ==
    IF q = <<>> THEN <<>>
    ELSE IF Head(q) = s THEN Without(Tail(q), s)
    ELSE <<Head(q)>> \o Without(Tail(q), s)

SessionsIdle ==
    /\ registry = <<>>
    /\ regLock = FALSE
    /\ guests = [s \in Sids |-> "none"]
    /\ closed = {}
    /\ globals = [s \in Sids |-> 0]
    /\ scratch = [s \in Sids |-> 0]
    /\ home = 0
    /\ homeCfg = FALSE
    /\ solo = [s \in Sids |-> NoData]
    /\ lastRes = NoLast
    /\ ca = NoCloseAll

\* _setup_python_runtime: self._preopen_dir(wasi, host_home, guest_home_req),
\* and _preopen_dir: preopen(host_path, alias): the same host directory for
\* every session, with the access preopen_dir gives by default (read, write)
HomeWritable == homeCfg

\* WasiService.create_session: a fresh sid, makedirs(root/<sid>), a new
\* _Session stored under sid, all with the registry lock held
MCreate(s) ==
    /\ ~regLock
    /\ guests[s] = "none"
    /\ guests' = [guests EXCEPT ![s] = "running"]
    /\ registry' = Append(registry, s)
    /\ UNCHANGED <<sessions, svcLock, created, ih, lock, stdin, stdout,
                   stdioClosed, gpc, guestErr, G, gcell, gtool, glast, gret,
                   interrupt, pc, op, call, timeout, timer, timed_out, resp,
                   errText, note, ret, nCalls, nextId, lastTool, hist, fside,
                   fstream, feof, fsent, frecv, fread, fhist, regLock,
                   closed, globals, scratch, home, homeCfg, solo, lastRes,
                   ca, hmsg, hcb, hcalls, hwritten, hpc, tcCall, tcPc,
                   tcClosed, tcNow, tcIn, tcOut, tcSent, faPc, faTools,
                   faCall, faExec, faRet, faSessions, faSdk, emSchema,
                   emParams, emSig, emPc, crPc, crSid, crReg, sioPc,
                   sioStreams, sioNodes, sioHolders, sioErr, sioRet>>

\* What a "read" cell of session s returns
CellReads(s) ==
    [G |-> globals[s], scratch |-> scratch[s],
     home |-> IF homeCfg THEN home ELSE 0]

\* WasiService.exec_cell on a registered session whose guest runs: the cell
\* is executed by that session's guest, in its G and its preopens.  No
\* registry lock is taken.
MExecCell(s, code) ==
    /\ s \in SeqSet(registry)
    /\ guests[s] = "running"
    /\ s \notin closed
    /\ IF code = "write"
       THEN /\ globals' = [globals EXCEPT ![s] = 1]
            /\ scratch' = [scratch EXCEPT ![s] = 1]
            /\ home' = IF HomeWritable THEN s ELSE home
            /\ solo' = [solo EXCEPT ![s] =
                          [G |-> 1, scratch |-> 1,
                           home |-> IF HomeWritable THEN s
                                    ELSE solo[s].home]]
            /\ lastRes' = [sid |-> s, res |-> NoData, solo |-> NoData]
       ELSE /\ lastRes' = [sid |-> s, res |-> CellReads(s), solo |-> solo[s]]
            /\ UNCHANGED <<globals, scratch, home, solo>>
    /\ UNCHANGED <<sessions, svcLock, created, ih, lock, stdin, stdout,
                   stdioClosed, gpc, guestErr, G, gcell, gtool, glast, gret,
                   interrupt, pc, op, call, timeout, timer, timed_out, resp,
                   errText, note, ret, nCalls, nextId, lastTool, hist, fside,
                   fstream, feof, fsent, frecv, fread, fhist, registry,
                   regLock, guests, closed, homeCfg, ca, hmsg, hcb, hcalls,
                   hwritten, hpc, tcCall, tcPc, tcClosed, tcNow, tcIn, tcOut,
                   tcSent, faPc, faTools, faCall, faExec, faRet, faSessions,
                   faSdk, emSchema, emParams, emSig, emPc, crPc, crSid,
                   crReg, sioPc, sioStreams, sioNodes, sioHolders, sioErr,
                   sioRet>>

\* WasiService.reset on a registered session whose guest runs: the guest
\* clears its G; files stay
MReset(s) ==
    /\ ~regLock
    /\ s \in SeqSet(registry)
    /\ guests[s] = "running"
    /\ s \notin closed
    /\ globals' = [globals EXCEPT ![s] = 0]
    /\ solo' = [solo EXCEPT ![s].G = 0]
    /\ UNCHANGED <<sessions, svcLock, created, ih, lock, stdin, stdout,
                   stdioClosed, gpc, guestErr, G, gcell, gtool, glast, gret,
                   interrupt, pc, op, call, timeout, timer, timed_out, resp,
                   errText, note, ret, nCalls, nextId, lastTool, hist, fside,
                   fstream, feof, fsent, frecv, fread, fhist, registry,
                   regLock, guests, closed, scratch, home, homeCfg, lastRes,
                   ca, hmsg, hcb, hcalls, hwritten, hpc, tcCall, tcPc,
                   tcClosed, tcNow, tcIn, tcOut, tcSent, faPc, faTools,
                   faCall, faExec, faRet, faSessions, faSdk, emSchema,
                   emParams, emSig, emPc, crPc, crSid, crReg, sioPc,
                   sioStreams, sioNodes, sioHolders, sioErr, sioRet>>

\* The guest of a session ends on its own (the cell leaves the interpreter)
MGuestDies(s) ==
    /\ guests[s] = "running"
    /\ guests' = [guests EXCEPT ![s] = "dead"]
    /\ globals' = [globals EXCEPT ![s] = 0]
    /\ solo' = [solo EXCEPT ![s].G = 0]
    /\ UNCHANGED <<sessions, svcLock, created, ih, lock, stdin, stdout,
                   stdioClosed, gpc, guestErr, G, gcell, gtool, glast, gret,
                   interrupt, pc, op, call, timeout, timer, timed_out, resp,
                   errText, note, ret, nCalls, nextId, lastTool, hist, fside,
                   fstream, feof, fsent, frecv, fread, fhist, registry,
                   regLock, closed, scratch, home, homeCfg, lastRes, ca,
                   hmsg, hcb, hcalls, hwritten, hpc, tcCall, tcPc, tcClosed,
                   tcNow, tcIn, tcOut, tcSent, faPc, faTools, faCall, faExec,
                   faRet, faSessions, faSdk, emSchema, emParams, emSig, emPc,
                   crPc, crSid, crReg, sioPc, sioStreams, sioNodes,
                   sioHolders, sioErr, sioRet>>

\* WasiService.close: pop under the lock, then _Session.close: the exit
\* handshake ends the guest
MClose(s) ==
    /\ ~regLock
    /\ s \in SeqSet(registry)
    /\ registry' = Without(registry, s)
    /\ closed' = closed \cup {s}
    /\ guests' = [guests EXCEPT ![s] = "dead"]
    /\ globals' = [globals EXCEPT ![s] = 0]
    /\ solo' = [solo EXCEPT ![s].G = 0]
    /\ UNCHANGED <<sessions, svcLock, created, ih, lock, stdin, stdout,
                   stdioClosed, gpc, guestErr, G, gcell, gtool, glast, gret,
                   interrupt, pc, op, call, timeout, timer, timed_out, resp,
                   errText, note, ret, nCalls, nextId, lastTool, hist, fside,
                   fstream, feof, fsent, frecv, fread, fhist, regLock,
                   scratch, home, homeCfg, lastRes, ca, hmsg, hcb, hcalls,
                   hwritten, hpc, tcCall, tcPc, tcClosed, tcNow, tcIn, tcOut,
                   tcSent, faPc, faTools, faCall, faExec, faRet, faSessions,
                   faSdk, emSchema, emParams, emSig, emPc, crPc, crSid,
                   crReg, sioPc, sioStreams, sioNodes, sioHolders, sioErr,
                   sioRet>>

\* WasiService.close_all: with self._lock; list(self._sessions.items())
MCloseAllBegin ==
    /\ ~regLock
    /\ regLock' = TRUE
    /\ ca' = [st |-> "running", snap |-> SeqSet(registry), todo |-> registry,
              failed |-> {}]
    /\ UNCHANGED <<sessions, svcLock, created, ih, lock, stdin, stdout,
                   stdioClosed, gpc, guestErr, G, gcell, gtool, glast, gret,
                   interrupt, pc, op, call, timeout, timer, timed_out, resp,
                   errText, note, ret, nCalls, nextId, lastTool, hist, fside,
                   fstream, feof, fsent, frecv, fread, fhist, registry,
                   guests, closed, globals, scratch, home, homeCfg, solo,
                   lastRes, hmsg, hcb, hcalls, hwritten, hpc, tcCall, tcPc,
                   tcClosed, tcNow, tcIn, tcOut, tcSent, faPc, faTools,
                   faCall, faExec, faRet, faSessions, faSdk, emSchema,
                   emParams, emSig, emPc, crPc, crSid, crReg, sioPc,
                   sioStreams, sioNodes, sioHolders, sioErr, sioRet>>

\* _Session.close ends in one of: "ok"; "failed", the handshake raised and
\* except Exception swallowed it (the guest is dead); "raises", an exception
\* left _cleanup_stdio: os.unlink of a FIFO node is guarded against
\* FileNotFoundError only, and a cell can replace the node in its scratch
\* directory
CloseOutcomes(s) ==
    (IF guests[s] = "dead" THEN {"failed"} ELSE {"ok"})
        \cup (IF scratch[s] = 1 THEN {"raises"} ELSE {})

\* mutant: a session whose guest is dead is passed over
MCloseAllStep_SkipsDead ==
    /\ ca.st = "running"
    /\ ca.todo # <<>>
    /\ LET s == Head(ca.todo) IN
       IF guests[s] = "dead"
       THEN /\ ca' = [ca EXCEPT !.todo = Tail(@), !.failed = @ \cup {s}]
            /\ UNCHANGED <<closed, guests, globals, solo, registry, regLock>>
       ELSE /\ closed' = closed \cup {s}
            /\ guests' = [guests EXCEPT ![s] = "dead"]
            /\ globals' = [globals EXCEPT ![s] = 0]
            /\ solo' = [solo EXCEPT ![s].G = 0]
            /\ registry' = Without(registry, s)
            /\ ca' = [ca EXCEPT !.todo = Tail(@)]
            /\ UNCHANGED regLock
    /\ UNCHANGED <<sessions, svcLock, created, ih, lock, stdin, stdout,
                   stdioClosed, gpc, guestErr, G, gcell, gtool, glast, gret,
                   interrupt, pc, op, call, timeout, timer, timed_out, resp,
                   errText, note, ret, nCalls, nextId, lastTool, hist, fside,
                   fstream, feof, fsent, frecv, fread, fhist, scratch, home,
                   homeCfg, lastRes, hmsg, hcb, hcalls, hwritten, hpc,
                   tcCall, tcPc, tcClosed, tcNow, tcIn, tcOut, tcSent, faPc,
                   faTools, faCall, faExec, faRet, faSessions, faSdk,
                   emSchema, emParams, emSig, emPc, crPc, crSid, crReg,
                   sioPc, sioStreams, sioNodes, sioHolders, sioErr, sioRet>>

\* close_all, one turn of the loop: try: session.close() finally: pop(sid).
\* An exception of close leaves the loop and close_all after the pop.
MCloseAllStep ==
    /\ ca.st = "running"
    /\ ca.todo # <<>>
    /\ LET s == Head(ca.todo) IN
       \E out \in CloseOutcomes(s) :
         /\ closed' = closed \cup {s}
         /\ guests' = [guests EXCEPT ![s] = "dead"]
         /\ globals' = [globals EXCEPT ![s] = 0]
         /\ solo' = [solo EXCEPT ![s].G = 0]
         /\ registry' = Without(registry, s)
         /\ IF out = "raises"
            THEN /\ ca' = [ca EXCEPT !.st = "raised"]
                 /\ regLock' = FALSE
            ELSE /\ ca' = [ca EXCEPT !.todo = Tail(@),
                                     !.failed = IF out = "failed"
                                                THEN @ \cup {s} ELSE @]
                 /\ UNCHANGED regLock
    /\ UNCHANGED <<sessions, svcLock, created, ih, lock, stdin, stdout,
                   stdioClosed, gpc, guestErr, G, gcell, gtool, glast, gret,
                   interrupt, pc, op, call, timeout, timer, timed_out, resp,
                   errText, note, ret, nCalls, nextId, lastTool, hist, fside,
                   fstream, feof, fsent, frecv, fread, fhist, scratch, home,
                   homeCfg, lastRes, hmsg, hcb, hcalls, hwritten, hpc,
                   tcCall, tcPc, tcClosed, tcNow, tcIn, tcOut, tcSent, faPc,
                   faTools, faCall, faExec, faRet, faSessions, faSdk,
                   emSchema, emParams, emSig, emPc, crPc, crSid, crReg,
                   sioPc, sioStreams, sioNodes, sioHolders, sioErr, sioRet>>

\* close_all: the loop is over, the lock is released, the call returns
MCloseAllReturn ==
    /\ ca.st = "running"
    /\ ca.todo = <<>>
    /\ ca' = [ca EXCEPT !.st = "returned"]
    /\ regLock' = FALSE
    /\ UNCHANGED <<sessions, svcLock, created, ih, lock, stdin, stdout,
                   stdioClosed, gpc, guestErr, G, gcell, gtool, glast, gret,
                   interrupt, pc, op, call, timeout, timer, timed_out, resp,
                   errText, note, ret, nCalls, nextId, lastTool, hist, fside,
                   fstream, feof, fsent, frecv, fread, fhist, registry,
                   guests, closed, globals, scratch, home, homeCfg, solo,
                   lastRes, hmsg, hcb, hcalls, hwritten, hpc, tcCall, tcPc,
                   tcClosed, tcNow, tcIn, tcOut, tcSent, faPc, faTools,
                   faCall, faExec, faRet, faSessions, faSdk, emSchema,
                   emParams, emSig, emPc, crPc, crSid, crReg, sioPc,
                   sioStreams, sioNodes, sioHolders, sioErr, sioRet>>

NextSessions ==
    \/ \E s \in Sids : MCreate(s)
    \/ \E s \in Sids, code \in Cells : MExecCell(s, code)
    \/ \E s \in Sids : MReset(s)
    \/ \E s \in Sids : MGuestDies(s)
    \/ \E s \in Sids : MClose(s)
    \/ MCloseAllBegin
    \/ MCloseAllStep
    \/ MCloseAllReturn

\* ============================================ _handle_tool_request alone
\* Mappings are functions from keys to values; a value is a string.

Get(m, k, d) == IF k \in DOMAIN m THEN m[k] ELSE d

\* dict.setdefault(k, v)
SetDefault(m, k, v) == IF k \in DOMAIN m THEN m ELSE m @@ (k :> v)

\* message.get(k) or d: a missing key and a falsy value both give d
GetOr(m, k, d) == IF Get(m, k, "") = "" THEN d ELSE m[k]

\* tool_request messages: id, name and arguments present, empty or missing
Messages ==
    {("type" :> "tool_request") @@ i @@ n @@ a :
        i \in {"id" :> "abc", "id" :> "def", "id" :> "", <<>>},
        n \in {"name" :> "echo", "name" :> "add", <<>>},
        a \in {"arguments" :> "{text: hi}", "arguments" :> "{n: 1}", <<>>}}

\* mappings a callback returns, by name
ResultNames == {"ok_true", "content_c", "own_id", "own_type"}
ResultOf(r) ==
    CASE r = "ok_true" -> ("ok" :> "true")
      [] r = "content_c" -> ("content" :> "c")
      [] r = "own_id" -> ("id" :> "zzz")
      [] r = "own_type" -> ("type" :> "other")

Callbacks ==
    {[kind |-> "mapping", value |-> r] : r \in ResultNames}
        \cup {[kind |-> "raises", value |-> "Exception"],
              [kind |-> "non_mapping", value |-> "42"]}

HandleIdle ==
    /\ hmsg = <<>>
    /\ hcb = [kind |-> "none", value |-> "none"]
    /\ hcalls = <<>>
    /\ hwritten = <<>>
    /\ hpc = "idle"

\* mutant: the request id is handed to the callback first
CallbackArgs_IdFirst(message) ==
    <<Get(message, "id", ""), GetOr(message, "name", ""),
      GetOr(message, "arguments", "{}")>>

\* self.callback(name, request_id, arguments)
CallbackArgs(message) ==
    <<GetOr(message, "name", ""), Get(message, "id", ""),
      GetOr(message, "arguments", "{}")>>

\* _handle_tool_request(message)
HandleToolRequest ==
    /\ hpc = "start"
    /\ LET request_id == Get(hmsg, "id", "") IN
       IF request_id = ""
       THEN /\ hpc' = "done"
            /\ UNCHANGED <<hcalls, hwritten>>
       ELSE /\ hcalls' = Append(hcalls, CallbackArgs(hmsg))
            /\ CASE hcb.kind = "raises" ->
                      /\ hwritten' = Append(hwritten,
                             ("type" :> "tool_result") @@ ("id" :> request_id)
                                 @@ ("error" :> hcb.value))
                      /\ hpc' = "done"
                 [] hcb.kind = "mapping" ->
                      /\ hwritten' = Append(hwritten,
                             SetDefault(SetDefault(ResultOf(hcb.value),
                                                   "type", "tool_result"),
                                        "id", request_id))
                      /\ hpc' = "done"
                 [] OTHER ->
                      /\ hpc' = "raised"
                      /\ UNCHANGED hwritten
    /\ UNCHANGED <<sessions, svcLock, created, ih, lock, stdin, stdout,
                   stdioClosed, gpc, guestErr, G, gcell, gtool, glast, gret,
                   interrupt, pc, op, call, timeout, timer, timed_out, resp,
                   errText, note, ret, nCalls, nextId, lastTool, hist, fside,
                   fstream, feof, fsent, frecv, fread, fhist, registry,
                   regLock, guests, closed, globals, scratch, home, homeCfg,
                   solo, lastRes, ca, hmsg, hcb, tcCall, tcPc, tcClosed,
                   tcNow, tcIn, tcOut, tcSent, faPc, faTools, faCall, faExec,
                   faRet, faSessions, faSdk, emSchema, emParams, emSig, emPc,
                   crPc, crSid, crReg, sioPc, sioStreams, sioNodes,
                   sioHolders, sioErr, sioRet>>

NextHandle == HandleToolRequest

\* ================================================== guest tool_call alone

\* The calls: a cell calling tool_call(name, args, timeout=t) with t in
\* ticks (0: no timeout), or a generated stub, whose body is
\* "return tool_call(<session id>, <tool name>, args)"
ToolNames == {"echo", "get_weather"}

\* _emit_function: the positional arguments of the call in the stub's body,
\* f"    return tool_call({session_literal}, {self._repr(tool_name)}, args)"
StubCall(session_id, tool_name) == <<session_id, tool_name, "args">>

\* a stub passes no timeout: tool_call's default applies (30 s, here 2 ticks)
ToolCalls ==
    {[caller |-> "cell", positional |-> <<n, "args">>, timeout |-> t] :
        n \in ToolNames, t \in 0..2}
      \cup
    {[caller |-> "stub", positional |-> StubCall("sid", n), timeout |-> 2] :
        n \in ToolNames}

\* the id ToolRuntime.invoke draws: uuid.uuid4().hex
RequestId == "u1"

\* what the host can put on the guest's stdin
Incoming == {"null", "empty", "non_dict", "other_type", "mismatch", "match"}

ToolCallIdle ==
    /\ tcCall = [caller |-> "none", positional |-> <<>>, timeout |-> 0]
    /\ tcPc = "idle"
    /\ tcClosed = FALSE
    /\ tcNow = 0
    /\ tcIn = <<>>
    /\ tcOut = <<>>
    /\ tcSent = 0

\* tool_call(function_name, args, *, timeout=30.0): two positional
\* parameters; then ToolRuntime.invoke: lp_write(payload), and
\* _await_response raises at once when the runtime is shutting down
TcInvoke ==
    /\ tcPc = "start"
    /\ IF Len(tcCall.positional) # 2
       THEN /\ tcPc' = "TypeError"
            /\ UNCHANGED tcOut
       ELSE /\ tcOut' = Append(tcOut, [type |-> "tool_request",
                                       id |-> RequestId,
                                       name |-> tcCall.positional[1],
                                       arguments |-> tcCall.positional[2]])
            /\ tcPc' = IF tcClosed THEN "ToolCallError" ELSE "await"
    /\ UNCHANGED <<sessions, svcLock, created, ih, lock, stdin, stdout,
                   stdioClosed, gpc, guestErr, G, gcell, gtool, glast, gret,
                   interrupt, pc, op, call, timeout, timer, timed_out, resp,
                   errText, note, ret, nCalls, nextId, lastTool, hist, fside,
                   fstream, feof, fsent, frecv, fread, fhist, registry,
                   regLock, guests, closed, globals, scratch, home, homeCfg,
                   solo, lastRes, ca, hmsg, hcb, hcalls, hwritten, hpc,
                   tcCall, tcClosed, tcNow, tcIn, tcSent, faPc, faTools,
                   faCall, faExec, faRet, faSessions, faSdk, emSchema,
                   emParams, emSig, emPc, crPc, crSid, crReg, sioPc,
                   sioStreams, sioNodes, sioHolders, sioErr, sioRet>>

\* the host writes a frame
TcHostSends(m) ==
    /\ tcSent < MaxMsgs
    /\ tcSent' = tcSent + 1
    /\ tcIn' = Append(tcIn, m)
    /\ UNCHANGED <<sessions, svcLock, created, ih, lock, stdin, stdout,
                   stdioClosed, gpc, guestErr, G, gcell, gtool, glast, gret,
                   interrupt, pc, op, call, timeout, timer, timed_out, resp,
                   errText, note, ret, nCalls, nextId, lastTool, hist, fside,
                   fstream, feof, fsent, frecv, fread, fhist, registry,
                   regLock, guests, closed, globals, scratch, home, homeCfg,
                   solo, lastRes, ca, hmsg, hcb, hcalls, hwritten, hpc,
                   tcCall, tcPc, tcClosed, tcNow, tcOut, faPc, faTools,
                   faCall, faExec, faRet, faSessions, faSdk, emSchema,
                   emParams, emSig, emPc, crPc, crSid, crReg, sioPc,
                   sioStreams, sioNodes, sioHolders, sioErr, sioRet>>

\* _await_response, one turn of its loop: message = lp_read() returns when
\* a frame is there; None, a non-dict and {} are passed over, a frame of
\* another type or another id raises, the matching tool_result is returned.
\* The deadline computed at the top of _await_response is not consulted.
TcAwaitRead ==
    /\ tcPc = "await"
    /\ tcIn # <<>>
    /\ tcIn' = Tail(tcIn)
    /\ tcPc' = CASE Head(tcIn) \in {"null", "empty", "non_dict"} -> "await"
                 [] Head(tcIn) \in {"other_type", "mismatch"} -> "ToolCallError"
                 [] OTHER -> "returned"
    /\ UNCHANGED <<sessions, svcLock, created, ih, lock, stdin, stdout,
                   stdioClosed, gpc, guestErr, G, gcell, gtool, glast, gret,
                   interrupt, pc, op, call, timeout, timer, timed_out, resp,
                   errText, note, ret, nCalls, nextId, lastTool, hist, fside,
                   fstream, feof, fsent, frecv, fread, fhist, registry,
                   regLock, guests, closed, globals, scratch, home, homeCfg,
                   solo, lastRes, ca, hmsg, hcb, hcalls, hwritten, hpc,
                   tcCall, tcClosed, tcNow, tcOut, tcSent, faPc, faTools,
                   faCall, faExec, faRet, faSessions, faSdk, emSchema,
                   emParams, emSig, emPc, crPc, crSid, crReg, sioPc,
                   sioStreams, sioNodes, sioHolders, sioErr, sioRet>>

\* time passes, once the call is made
TcTick ==
    /\ tcPc # "start"
    /\ tcNow < MaxTicks
    /\ tcNow' = tcNow + 1
    /\ UNCHANGED <<sessions, svcLock, created, ih, lock, stdin, stdout,
                   stdioClosed, gpc, guestErr, G, gcell, gtool, glast, gret,
                   interrupt, pc, op, call, timeout, timer, timed_out, resp,
                   errText, note, ret, nCalls, nextId, lastTool, hist, fside,
                   fstream, feof, fsent, frecv, fread, fhist, registry,
                   regLock, guests, closed, globals, scratch, home, homeCfg,
                   solo, lastRes, ca, hmsg, hcb, hcalls, hwritten, hpc,
                   tcCall, tcPc, tcClosed, tcIn, tcOut, tcSent, faPc,
                   faTools, faCall, faExec, faRet, faSessions, faSdk,
                   emSchema, emParams, emSig, emPc, crPc, crSid, crReg,
                   sioPc, sioStreams, sioNodes, sioHolders, sioErr, sioRet>>

NextToolCall ==
    \/ TcInvoke
    \/ \E m \in Incoming : TcHostSends(m)
    \/ TcAwaitRead
    \/ TcTick

\* ================================================================ facade

\* tool descriptors: mappings with or without a "type"
Descriptors ==
    {("type" :> "function") @@ ("name" :> "f"),
     ("type" :> "function") @@ ("name" :> "g"),
     ("type" :> "web_search"),
     ("type" :> "mcp") @@ ("name" :> "m"),
     ("name" :> "untyped")}

\* _DEFAULT_CODE_TOOL
DefaultCodeTool == ("type" :> "function") @@ ("name" :> "python")

ToolLists == UNION {[1..n -> Descriptors] : n \in 0..MaxToolList}

\* func_call records for the python tool; arguments is JSON text, or missing
ArgumentTexts ==
    {"{\"code\": \"print(1)\"}", "{\"code\": \"\"}", "{}", "{\"code\": null}",
     "[]", "not json", "missing"}
FuncCalls ==
    {[type |-> "function_call", name |-> "python", call_id |-> c,
      arguments |-> a] : c \in {"call_1", "call_2"}, a \in ArgumentTexts}
NoCall == [type |-> "none", name |-> "none", call_id |-> "none",
           arguments |-> "missing"]
NoExec == [ok |-> FALSE, stdout |-> "none", error |-> "none"]
NoFaRet == [op |-> "none", type |-> "none", call_id |-> "none",
            output |-> "none", tools |-> <<>>, result |-> NoExec]

\* json.loads(func_call.get("arguments", {})) then args.get("code"): the
\* code, "None" when the key is missing or null, or the exception raised
\* (json.loads of the {} default is a TypeError)
CodeOf(a) ==
    CASE a = "{\"code\": \"print(1)\"}" -> [exc |-> "none", code |-> "print(1)"]
      [] a = "{\"code\": \"\"}" -> [exc |-> "none", code |-> ""]
      [] a \in {"{}", "{\"code\": null}"} -> [exc |-> "none", code |-> "None"]
      [] a = "[]" -> [exc |-> "AttributeError", code |-> "None"]
      [] a = "not json" -> [exc |-> "JSONDecodeError", code |-> "None"]
      [] OTHER -> [exc |-> "TypeError", code |-> "None"]

\* what wasi_service.exec_cell gives back: an ExecResult
ExecResults ==
    {[ok |-> TRUE, stdout |-> "1\n", error |-> "None"],
     [ok |-> FALSE, stdout |-> "", error |-> "NameError"],
     [ok |-> FALSE, stdout |-> "partial", error |-> "Timeout after 8000 ms"]}

FacadeIdle ==
    /\ faPc = "idle"
    /\ faTools = <<>>
    /\ faCall = NoCall
    /\ faExec = <<>>
    /\ faRet = NoFaRet
    /\ faSessions = 0
    /\ faSdk = "absent"

\* The calls ToolIsCode.__init__ makes, with the number of positional
\* arguments it passes and the number the callee declares (self apart):
\* ToolFunctionEmitter(self._orig_tools) against __init__(session_id, tools),
\* wasi_service.create_session(callback, self._tool_source) against
\* create_session(callback)
ConstructorCalls ==
    <<[fn |-> "ToolFunctionEmitter", passes |-> 1, takes |-> 2],
      [fn |-> "create_session", passes |-> 2, takes |-> 1]>>

\* ToolIsCode.__init__: the first call whose arguments do not fit raises
\* TypeError; create_session adds one session and writes no file
FaConstruct ==
    /\ faPc = "new"
    /\ IF \E i \in 1..Len(ConstructorCalls) :
            ConstructorCalls[i].passes # ConstructorCalls[i].takes
       THEN /\ faPc' = "TypeError"
            /\ UNCHANGED faSessions
       ELSE /\ faPc' = "built"
            /\ faSessions' = faSessions + 1
    /\ UNCHANGED <<sessions, svcLock, created, ih, lock, stdin, stdout,
                   stdioClosed, gpc, guestErr, G, gcell, gtool, glast, gret,
                   interrupt, pc, op, call, timeout, timer, timed_out, resp,
                   errText, note, ret, nCalls, nextId, lastTool, hist, fside,
                   fstream, feof, fsent, frecv, fread, fhist, registry,
                   regLock, guests, closed, globals, scratch, home, homeCfg,
                   solo, lastRes, ca, hmsg, hcb, hcalls, hwritten, hpc,
                   tcCall, tcPc, tcClosed, tcNow, tcIn, tcOut, tcSent,
                   faTools, faCall, faExec, faRet, faSdk, emSchema, emParams,
                   emSig, emPc, crPc, crSid, crReg, sioPc, sioStreams,
                   sioNodes, sioHolders, sioErr, sioRet>>

\* mutant: every descriptor of the user is passed on
Tools_PassAll(orig) == <<DefaultCodeTool>> \o orig

\* ToolIsCode.tools
Tools(orig) ==
    <<DefaultCodeTool>>
        \o SelectSeq(orig, LAMBDA t : Get(t, "type", "None") # "function")

\* reading the tools property
FaTools ==
    /\ faPc = "built"
    /\ faPc' = "read"
    /\ faRet' = [NoFaRet EXCEPT !.op = "tools", !.tools = Tools(faTools)]
    /\ UNCHANGED <<sessions, svcLock, created, ih, lock, stdin, stdout,
                   stdioClosed, gpc, guestErr, G, gcell, gtool, glast, gret,
                   interrupt, pc, op, call, timeout, timer, timed_out, resp,
                   errText, note, ret, nCalls, nextId, lastTool, hist, fside,
                   fstream, feof, fsent, frecv, fread, fhist, registry,
                   regLock, guests, closed, globals, scratch, home, homeCfg,
                   solo, lastRes, ca, hmsg, hcb, hcalls, hwritten, hpc,
                   tcCall, tcPc, tcClosed, tcNow, tcIn, tcOut, tcSent,
                   faTools, faCall, faExec, faSessions, faSdk, emSchema,
                   emParams, emSig, emPc, crPc, crSid, crReg, sioPc,
                   sioStreams, sioNodes, sioHolders, sioErr, sioRet>>

\* ToolIsCode.tool_call(func_call)
FaToolCall ==
    /\ faPc = "built"
    /\ LET parsed == CodeOf(faCall.arguments) IN
       IF parsed.exc # "none"
       THEN /\ faPc' = parsed.exc
            /\ UNCHANGED <<faExec, faRet>>
       ELSE /\ faPc' = "called"
            /\ IF parsed.code \notin {"", "None"}
               THEN \E result \in ExecResults :
                      /\ faExec' = Append(faExec, parsed.code)
                      /\ faRet' = [NoFaRet EXCEPT
                             !.op = "tool_call",
                             !.type = "function_call_output",
                             !.call_id = faCall.call_id,
                             !.output = IF result.ok THEN result.stdout
                                        ELSE result.error,
                             !.result = result]
               ELSE /\ faRet' = [NoFaRet EXCEPT
                             !.op = "tool_call",
                             !.type = "function_call_output",
                             !.call_id = faCall.call_id,
                             !.output = ""]
                    /\ UNCHANGED faExec
    /\ UNCHANGED <<sessions, svcLock, created, ih, lock, stdin, stdout,
                   stdioClosed, gpc, guestErr, G, gcell, gtool, glast, gret,
                   interrupt, pc, op, call, timeout, timer, timed_out, resp,
                   errText, note, ret, nCalls, nextId, lastTool, hist, fside,
                   fstream, feof, fsent, frecv, fread, fhist, registry,
                   regLock, guests, closed, globals, scratch, home, homeCfg,
                   solo, lastRes, ca, hmsg, hcb, hcalls, hwritten, hpc,
                   tcCall, tcPc, tcClosed, tcNow, tcIn, tcOut, tcSent,
                   faTools, faCall, faSessions, faSdk, emSchema, emParams,
                   emSig, emPc, crPc, crSid, crReg, sioPc, sioStreams,
                   sioNodes, sioHolders, sioErr, sioRet>>

NextFacade ==
    \/ FaConstruct
    \/ FaTools
    \/ FaToolCall

\* =========================================================== stub generator
\* A name is a sequence of characters.

\* wire names of parameters
WireNames ==
    {<<"a">>, <<"A">>, <<"a", "-", "s">>, <<"a", "_", "s">>, <<"a", "s">>,
     <<"1", "a">>}

\* re \W: the characters that are not letters, digits or "_"
IsWordChar(c) == c \in {"a", "s", "A", "S", "1", "_", "t", "o", "l"}
IsDigit(c) == c \in {"1"}

\* keyword.iskeyword, on the names these characters can spell
IsKeyword(n) == n \in {<<"a", "s">>, <<"i", "s">>}

RECURSIVE DropNonWord(_)
DropNonWord(s) ==
    IF s = <<>> \/ IsWordChar(Head(s)) THEN s ELSE DropNonWord(Tail(s))

\* re.sub(r"\W+", "_", name)
RECURSIVE SubNonWord(_)
SubNonWord(s) ==
    IF s = <<>> THEN <<>>
    ELSE IF IsWordChar(Head(s)) THEN <<Head(s)>> \o SubNonWord(Tail(s))
    ELSE <<"_">> \o SubNonWord(DropNonWord(s))

\* str.strip("_")
RECURSIVE LStrip(_)
LStrip(s) == IF s # <<>> /\ Head(s) = "_" THEN LStrip(Tail(s)) ELSE s
RECURSIVE RStrip(_)
RStrip(s) ==
    IF s # <<>> /\ s[Len(s)] = "_" THEN RStrip(SubSeq(s, 1, Len(s) - 1)) ELSE s

\* str.lower()
Lower(s) ==
    [i \in 1..Len(s) |-> CASE s[i] = "A" -> "a" [] s[i] = "S" -> "s"
                           [] OTHER -> s[i]]

\* ToolFunctionEmitter._to_identifier
ToIdentifier(name) ==
    LET stripped == RStrip(LStrip(SubNonWord(name)))
        named == IF stripped = <<>> THEN <<"t", "o", "o", "l">> ELSE stripped
        lowered == Lower(named)
        undigit == IF IsDigit(lowered[1])
                   THEN <<"t", "o", "o", "l", "_">> \o lowered ELSE lowered
    IN IF IsKeyword(undigit) THEN undigit \o <<"_">> ELSE undigit

\* schema.get("default"): "None" when the key is absent (or null), else
\* the value; repr() of the value is its literal
Defaults == {"None", "'metric'"}

\* "properties": an ordered mapping, its keys distinct; nullable: the
\* "type" of the property is a list that holds "null"
PropertyLists ==
    UNION {{p \in [1..n -> [name : WireNames, default : Defaults,
                            nullable : BOOLEAN]] :
              \A i, j \in 1..n : i # j => p[i].name # p[j].name} :
           n \in 0..MaxParams}

\* "required": a list of names, where a name can come twice
RequiredLists ==
    {<<>>} \cup {<<n>> : n \in WireNames}
           \cup {<<n, m>> : n \in WireNames, m \in WireNames}

Schemas == [properties : PropertyLists, required : RequiredLists]

EmitterIdle ==
    /\ emSchema = [properties |-> <<>>, required |-> <<>>]
    /\ emParams = <<>>
    /\ emSig = <<>>
    /\ emPc = "idle"

InSeq(x, q) == \E i \in 1..Len(q) : q[i] = x

\* list(dict.fromkeys(q)): the first occurrence of each element, in order
RECURSIVE FromKeys(_, _)
FromKeys(q, seen) ==
    IF q = <<>> THEN <<>>
    ELSE IF InSeq(Head(q), seen) THEN FromKeys(Tail(q), seen)
    ELSE <<Head(q)>> \o FromKeys(Tail(q), Append(seen, Head(q)))

\* properties.get(original_name, {}).get("default")
SchemaDefault(properties, n) ==
    IF \E i \in 1..Len(properties) : properties[i].name = n
    THEN (CHOOSE p \in {properties[i] : i \in 1..Len(properties)} :
              p.name = n).default
    ELSE "None"

\* properties.get(original_name, {}).get("type") is a list holding "null"
SchemaNullable(properties, n) ==
    \E i \in 1..Len(properties) :
        properties[i].name = n /\ properties[i].nullable

\* _build_parameter: name, original_name, default ("none": no default) and
\* optional.  default_expr is set in the branch of the non-required only.
BuildParameter(original_name, default, allows_null, is_required) ==
    LET default_expr == IF is_required THEN "none"
                        ELSE IF default # "None" THEN default ELSE "None"
    IN [name |-> ToIdentifier(original_name),
        original_name |-> original_name,
        default |-> IF default_expr # "None" \/ ~is_required
                    THEN default_expr ELSE "none",
        optional |-> ~is_required \/ allows_null]

\* mutant: the names of required and properties, one after the other
OrderedNames_Concatenated(schema) ==
    schema.required
        \o [i \in 1..Len(schema.properties) |-> schema.properties[i].name]

\* _parse_parameters: list(dict.fromkeys(list(required) + list(properties)))
OrderedNames(schema) ==
    FromKeys(schema.required
               \o [i \in 1..Len(schema.properties) |-> schema.properties[i].name],
             <<>>)

\* _parse_parameters
EmParseParameters ==
    /\ emPc = "schema"
    /\ emPc' = "parsed"
    /\ emParams' =
         LET names == OrderedNames(emSchema) IN
         [i \in 1..Len(names) |->
            BuildParameter(names[i],
                           SchemaDefault(emSchema.properties, names[i]),
                           SchemaNullable(emSchema.properties, names[i]),
                           InSeq(names[i], emSchema.required))]
    /\ UNCHANGED <<sessions, svcLock, created, ih, lock, stdin, stdout,
                   stdioClosed, gpc, guestErr, G, gcell, gtool, glast, gret,
                   interrupt, pc, op, call, timeout, timer, timed_out, resp,
                   errText, note, ret, nCalls, nextId, lastTool, hist, fside,
                   fstream, feof, fsent, frecv, fread, fhist, registry,
                   regLock, guests, closed, globals, scratch, home, homeCfg,
                   solo, lastRes, ca, hmsg, hcb, hcalls, hwritten, hpc,
                   tcCall, tcPc, tcClosed, tcNow, tcIn, tcOut, tcSent, faPc,
                   faTools, faCall, faExec, faRet, faSessions, faSdk,
                   emSchema, emSig, crPc, crSid, crReg, sioPc, sioStreams,
                   sioNodes, sioHolders, sioErr, sioRet>>

\* _emit_function: sig_parts, "name: annotation = default" when the
\* parameter has a default and "name: annotation" otherwise; the
\* annotation is wrapped in Optional[...] when the parameter is optional
\* and has no default other than None
EmEmitFunction ==
    /\ emPc = "parsed"
    /\ emPc' = "emitted"
    /\ emSig' = [i \in 1..Len(emParams) |->
                   [name |-> emParams[i].name,
                    default |-> emParams[i].default,
                    wrapped |-> emParams[i].optional
                                /\ emParams[i].default \in {"none", "None"}]]
    /\ UNCHANGED <<sessions, svcLock, created, ih, lock, stdin, stdout,
                   stdioClosed, gpc, guestErr, G, gcell, gtool, glast, gret,
                   interrupt, pc, op, call, timeout, timer, timed_out, resp,
                   errText, note, ret, nCalls, nextId, lastTool, hist, fside,
                   fstream, feof, fsent, frecv, fread, fhist, registry,
                   regLock, guests, closed, globals, scratch, home, homeCfg,
                   solo, lastRes, ca, hmsg, hcb, hcalls, hwritten, hpc,
                   tcCall, tcPc, tcClosed, tcNow, tcIn, tcOut, tcSent, faPc,
                   faTools, faCall, faExec, faRet, faSessions, faSdk,
                   emSchema, emParams, crPc, crSid, crReg, sioPc, sioStreams,
                   sioNodes, sioHolders, sioErr, sioRet>>

NextEmitter ==
    \/ EmParseParameters
    \/ EmEmitFunction

\* ===================================== create_session by several threads
\* WasiService.create_session: the sid is drawn and asserted absent before
\* the registry lock is taken; the session is built and stored under it.

\* the session stored by a create_session that returned before these
Earlier == NumThreads + 1

CreateIdle ==
    /\ crPc = [t \in Threads |-> "idle"]
    /\ crSid = [t \in Threads |-> 0]
    /\ crReg = [s \in Sids |-> 0]

\* sid = base64.b64encode(secrets.token_bytes(12)): any value
CrDraw(t, s) ==
    /\ crPc[t] = "idle"
    /\ crSid[t] = 0
    /\ crSid' = [crSid EXCEPT ![t] = s]
    /\ crPc' = [crPc EXCEPT ![t] = "drawn"]
    /\ UNCHANGED <<sessions, svcLock, created, ih, lock, stdin, stdout,
                   stdioClosed, gpc, guestErr, G, gcell, gtool, glast, gret,
                   interrupt, pc, op, call, timeout, timer, timed_out, resp,
                   errText, note, ret, nCalls, nextId, lastTool, hist, fside,
                   fstream, feof, fsent, frecv, fread, fhist, registry,
                   regLock, guests, closed, globals, scratch, home, homeCfg,
                   solo, lastRes, ca, hmsg, hcb, hcalls, hwritten, hpc,
                   tcCall, tcPc, tcClosed, tcNow, tcIn, tcOut, tcSent, faPc,
                   faTools, faCall, faExec, faRet, faSessions, faSdk,
                   emSchema, emParams, emSig, emPc, crReg, sioPc, sioStreams,
                   sioNodes, sioHolders, sioErr, sioRet>>

\* assert sid not in self._sessions, without the registry lock
CrAssert(t) ==
    /\ crPc[t] = "drawn"
    /\ crPc' = [crPc EXCEPT ![t] =
                  IF crReg[crSid[t]] # 0 THEN "AssertionError" ELSE "checked"]
    /\ UNCHANGED <<sessions, svcLock, created, ih, lock, stdin, stdout,
                   stdioClosed, gpc, guestErr, G, gcell, gtool, glast, gret,
                   interrupt, pc, op, call, timeout, timer, timed_out, resp,
                   errText, note, ret, nCalls, nextId, lastTool, hist, fside,
                   fstream, feof, fsent, frecv, fread, fhist, registry,
                   regLock, guests, closed, globals, scratch, home, homeCfg,
                   solo, lastRes, ca, hmsg, hcb, hcalls, hwritten, hpc,
                   tcCall, tcPc, tcClosed, tcNow, tcIn, tcOut, tcSent, faPc,
                   faTools, faCall, faExec, faRet, faSessions, faSdk,
                   emSchema, emParams, emSig, emPc, crSid, crReg, sioPc,
                   sioStreams, sioNodes, sioHolders, sioErr, sioRet>>

\* with self._lock: makedirs(session_dir, exist_ok=True);
\* self._sessions[sid] = _Session(sid, callback, self.root); return sid.
\* _Session.__init__ may raise: nothing is stored then.
CrInsert(t) ==
    /\ crPc[t] = "checked"
    /\ \E built \in BOOLEAN :
         IF built
         THEN /\ crReg' = [crReg EXCEPT ![crSid[t]] = t]
              /\ crPc' = [crPc EXCEPT ![t] = "returned"]
         ELSE /\ crPc' = [crPc EXCEPT ![t] = "raised"]
              /\ UNCHANGED crReg
    /\ UNCHANGED <<sessions, svcLock, created, ih, lock, stdin, stdout,
                   stdioClosed, gpc, guestErr, G, gcell, gtool, glast, gret,
                   interrupt, pc, op, call, timeout, timer, timed_out, resp,
                   errText, note, ret, nCalls, nextId, lastTool, hist, fside,
                   fstream, feof, fsent, frecv, fread, fhist, registry,
                   regLock, guests, closed, globals, scratch, home, homeCfg,
                   solo, lastRes, ca, hmsg, hcb, hcalls, hwritten, hpc,
                   tcCall, tcPc, tcClosed, tcNow, tcIn, tcOut, tcSent, faPc,
                   faTools, faCall, faExec, faRet, faSessions, faSdk,
                   emSchema, emParams, emSig, emPc, crSid, sioPc, sioStreams,
                   sioNodes, sioHolders, sioErr, sioRet>>

NextCreate ==
    \/ \E t \in Threads, s \in Sids : CrDraw(t, s)
    \/ \E t \in Threads : CrAssert(t)
    \/ \E t \in Threads : CrInsert(t)

\* ============================================= the stdio of one session
\* _Session with FIFO stdio (wasmtime has no Pipe): the FIFO nodes in the
\* session directory, the placeholder descriptors, the three host streams
\* and the bytes waiting on stderr, over __init__, exec_cell and close.

\* _prepare_fifos: the keys of mapping, in order
StdioNames == <<"stdin", "stdout", "stderr">>

NoSioRet == [op |-> "none", kind |-> "none", how |-> "none", stderr |-> <<>>,
             captured |-> <<>>, buffered |-> <<>>, was_open |-> FALSE]

StdioIdle ==
    /\ sioPc = "new"
    /\ sioStreams = [i \in 1..3 |-> "none"]
    /\ sioNodes = [i \in 1..3 |-> "absent"]
    /\ sioHolders = {}
    /\ sioErr = <<>>
    /\ sioRet = NoSioRet

\* __init__: _prepare_fifos makes the three nodes; _assign_fifo_path opens
\* a placeholder descriptor on each (or none, on ENXIO / ENOENT)
SioAssign ==
    /\ sioPc = "new"
    /\ sioNodes' = [i \in 1..3 |-> "fifo"]
    /\ \E h \in SUBSET (1..3) : sioHolders' = h
    /\ sioPc' = "assigned"
    /\ UNCHANGED <<sessions, svcLock, created, ih, lock, stdin, stdout,
                   stdioClosed, gpc, guestErr, G, gcell, gtool, glast, gret,
                   interrupt, pc, op, call, timeout, timer, timed_out, resp,
                   errText, note, ret, nCalls, nextId, lastTool, hist, fside,
                   fstream, feof, fsent, frecv, fread, fhist, registry,
                   regLock, guests, closed, globals, scratch, home, homeCfg,
                   solo, lastRes, ca, hmsg, hcb, hcalls, hwritten, hpc,
                   tcCall, tcPc, tcClosed, tcNow, tcIn, tcOut, tcSent, faPc,
                   faTools, faCall, faExec, faRet, faSessions, faSdk,
                   emSchema, emParams, emSig, emPc, crPc, crSid, crReg,
                   sioStreams, sioErr, sioRet>>

\* _cleanup_stdio, first loop: every stream that is set is closed (a second
\* close raises OSError, which is swallowed)
CleanupStreams(streams) ==
    [i \in 1..3 |-> IF streams[i] = "none" THEN "none" ELSE "closed"]

\* _cleanup_stdio, second loop: os.unlink of each path in order; a missing
\* node is skipped (FileNotFoundError), any other OSError (the name is a
\* directory now) leaves the loop: raised is the place it happened, 0 if none
UnlinkNodes(nodes) ==
    LET bad == {i \in 1..3 : nodes[i] = "dir"}
        stop == IF bad = {} THEN 0
                ELSE CHOOSE i \in bad : \A j \in bad : i <= j
    IN [nodes |-> [i \in 1..3 |-> IF stop = 0 \/ i < stop THEN "absent"
                                  ELSE nodes[i]],
        raised |-> stop]

\* __init__: _attach_fifo_streams opens the writer and the two readers; a
\* failure (timeout opening a FIFO) runs _cleanup_stdio and is raised
\* again; the finally releases the placeholders either way
SioAttach ==
    /\ sioPc = "assigned"
    /\ \E k \in 0..3 :
         LET opened == [i \in 1..3 |-> IF i <= k THEN "open" ELSE "none"] IN
         IF k = 3
         THEN /\ sioStreams' = opened
              /\ sioPc' = "ready"
              /\ UNCHANGED sioNodes
         ELSE /\ sioStreams' = CleanupStreams(opened)
              /\ sioNodes' = UnlinkNodes(sioNodes).nodes
              /\ sioPc' = "init_failed"
    /\ sioHolders' = {}
    /\ UNCHANGED <<sessions, svcLock, created, ih, lock, stdin, stdout,
                   stdioClosed, gpc, guestErr, G, gcell, gtool, glast, gret,
                   interrupt, pc, op, call, timeout, timer, timed_out, resp,
                   errText, note, ret, nCalls, nextId, lastTool, hist, fside,
                   fstream, feof, fsent, frecv, fread, fhist, registry,
                   regLock, guests, closed, globals, scratch, home, homeCfg,
                   solo, lastRes, ca, hmsg, hcb, hcalls, hwritten, hpc,
                   tcCall, tcPc, tcClosed, tcNow, tcIn, tcOut, tcSent, faPc,
                   faTools, faCall, faExec, faRet, faSessions, faSdk,
                   emSchema, emParams, emSig, emPc, crPc, crSid, crReg,
                   sioErr, sioRet>>

\* the guest writes a byte to its stderr (an interpreter message; the
\* stderr of a cell is captured in the exec_result instead)
SioGuestWritesErr ==
    /\ sioPc = "ready"
    /\ Len(sioErr) < MaxErrBytes
    /\ sioErr' = Append(sioErr, "e")
    /\ UNCHANGED <<sessions, svcLock, created, ih, lock, stdin, stdout,
                   stdioClosed, gpc, guestErr, G, gcell, gtool, glast, gret,
                   interrupt, pc, op, call, timeout, timer, timed_out, resp,
                   errText, note, ret, nCalls, nextId, lastTool, hist, fside,
                   fstream, feof, fsent, frecv, fread, fhist, registry,
                   regLock, guests, closed, globals, scratch, home, homeCfg,
                   solo, lastRes, ca, hmsg, hcb, hcalls, hwritten, hpc,
                   tcCall, tcPc, tcClosed, tcNow, tcIn, tcOut, tcSent, faPc,
                   faTools, faCall, faExec, faRet, faSessions, faSdk,
                   emSchema, emParams, emSig, emPc, crPc, crSid, crReg,
                   sioPc, sioStreams, sioNodes, sioHolders, sioRet>>

\* a cell removes a FIFO node of its directory, or puts a directory in its
\* place: the session directory is preopened for the guest
SioGuestTampers(i, to) ==
    /\ sioPc = "ready"
    /\ sioNodes[i] = "fifo"
    /\ sioNodes' = [sioNodes EXCEPT ![i] = to]
    /\ UNCHANGED <<sessions, svcLock, created, ih, lock, stdin, stdout,
                   stdioClosed, gpc, guestErr, G, gcell, gtool, glast, gret,
                   interrupt, pc, op, call, timeout, timer, timed_out, resp,
                   errText, note, ret, nCalls, nextId, lastTool, hist, fside,
                   fstream, feof, fsent, frecv, fread, fhist, registry,
                   regLock, guests, closed, globals, scratch, home, homeCfg,
                   solo, lastRes, ca, hmsg, hcb, hcalls, hwritten, hpc,
                   tcCall, tcPc, tcClosed, tcNow, tcIn, tcOut, tcSent, faPc,
                   faTools, faCall, faExec, faRet, faSessions, faSdk,
                   emSchema, emParams, emSig, emPc, crPc, crSid, crReg,
                   sioPc, sioStreams, sioHolders, sioErr, sioRet>>

\* what os.read on the descriptor number of a closed stream does: the
\* number is free (EBADF) or names a descriptor opened since
StaleReads == {"EBADF", "reused"}

\* mutant: nothing is read from the stream
DrainStderr_Nothing(stream, buf, stale) ==
    [data |-> <<>>,
     exc |-> IF stream = "closed" /\ stale = "EBADF" THEN "OSError"
             ELSE "none"]

\* _drain_stderr: b"" when there is no stream; else self._stderr.read(),
\* where the non-blocking _FifoReader.read takes chunks until the FIFO is
\* empty; close leaves the descriptor number in the reader, so a read after
\* it raises OSError or returns the bytes of another file
DrainStderr(stream, buf, stale) ==
    IF stream = "none" THEN [data |-> <<>>, exc |-> "none"]
    ELSE IF stream = "open" THEN [data |-> buf, exc |-> "none"]
    ELSE IF stale = "EBADF" THEN [data |-> <<>>, exc |-> "OSError"]
    ELSE [data |-> <<"x">>, exc |-> "none"]

\* the ways the try block of exec_cell ends, and the stderr of resp then
ExecPaths == {"exec_result", "trap", "exception"}
Captured(path) == IF path = "exec_result" THEN {<<>>, <<"c">>} ELSE {<<>>}

\* exec_cell from the end of its try block: raw_stderr = _drain_stderr();
\* stderr = (resp.get("stderr") or "") + raw_stderr.  On a closed session
\* the try block ends in an exception.  was_open: the stderr stream was
\* attached and open when the call drained it.
SioExecCell(path, captured) ==
    /\ sioPc \in {"ready", "closed"}
    /\ sioPc = "closed" => path = "exception"
    /\ \E stale \in StaleReads :
       LET d == DrainStderr(sioStreams[3], sioErr, stale) IN
         /\ sioRet' = [op |-> "exec_cell",
                       kind |-> IF d.exc = "none" THEN "result" ELSE "raised",
                       how |-> path,
                       stderr |-> captured \o d.data,
                       captured |-> captured,
                       buffered |-> sioErr,
                       was_open |-> sioStreams[3] = "open"]
         /\ sioErr' = IF sioStreams[3] = "open" THEN <<>> ELSE sioErr
    /\ UNCHANGED <<sessions, svcLock, created, ih, lock, stdin, stdout,
                   stdioClosed, gpc, guestErr, G, gcell, gtool, glast, gret,
                   interrupt, pc, op, call, timeout, timer, timed_out, resp,
                   errText, note, ret, nCalls, nextId, lastTool, hist, fside,
                   fstream, feof, fsent, frecv, fread, fhist, registry,
                   regLock, guests, closed, globals, scratch, home, homeCfg,
                   solo, lastRes, ca, hmsg, hcb, hcalls, hwritten, hpc,
                   tcCall, tcPc, tcClosed, tcNow, tcIn, tcOut, tcSent, faPc,
                   faTools, faCall, faExec, faRet, faSessions, faSdk,
                   emSchema, emParams, emSig, emPc, crPc, crSid, crReg,
                   sioPc, sioStreams, sioNodes, sioHolders>>

\* the exit handshake of close: done, or ended by an exception in
\* _ensure_guest_running / _lp_write, or in _lp_read
Handshakes == {"acked", "write_failed", "read_failed"}

\* mutant: _cleanup_stdio runs at the end of the try block, not in a finally
SioClose_CleanupInTry(hs) ==
    /\ sioPc \in {"ready", "closed"}
    /\ sioPc = "closed" => hs # "acked"
    /\ sioPc' = "closed"
    /\ IF hs # "acked"
       THEN /\ sioRet' = [NoSioRet EXCEPT !.op = "close", !.how = hs,
                                           !.kind = "returned"]
            /\ UNCHANGED <<sioStreams, sioNodes, sioHolders>>
       ELSE LET u == UnlinkNodes(sioNodes) IN
            /\ sioStreams' = CleanupStreams(sioStreams)
            /\ sioNodes' = u.nodes
            /\ sioHolders' = IF u.raised = 0 THEN {} ELSE sioHolders
            /\ sioRet' = [NoSioRet EXCEPT !.op = "close", !.how = hs,
                            !.kind = IF u.raised = 0 THEN "returned"
                                     ELSE "raised"]
    /\ UNCHANGED <<sessions, svcLock, created, ih, lock, stdin, stdout,
                   stdioClosed, gpc, guestErr, G, gcell, gtool, glast, gret,
                   interrupt, pc, op, call, timeout, timer, timed_out, resp,
                   errText, note, ret, nCalls, nextId, lastTool, hist, fside,
                   fstream, feof, fsent, frecv, fread, fhist, registry,
                   regLock, guests, closed, globals, scratch, home, homeCfg,
                   solo, lastRes, ca, hmsg, hcb, hcalls, hwritten, hpc,
                   tcCall, tcPc, tcClosed, tcNow, tcIn, tcOut, tcSent, faPc,
                   faTools, faCall, faExec, faRet, faSessions, faSdk,
                   emSchema, emParams, emSig, emPc, crPc, crSid, crReg,
                   sioErr>>

\* _Session.close: the handshake in a try whose exceptions are dropped, then
\* finally _cleanup_stdio: streams closed, nodes unlinked, placeholders
\* released; an OSError of os.unlink leaves close
SioClose(hs) ==
    /\ sioPc \in {"ready", "closed"}
    /\ sioPc = "closed" => hs # "acked"
    /\ sioPc' = "closed"
    /\ LET u == UnlinkNodes(sioNodes) IN
         /\ sioStreams' = CleanupStreams(sioStreams)
         /\ sioNodes' = u.nodes
         /\ sioHolders' = IF u.raised = 0 THEN {} ELSE sioHolders
         /\ sioRet' = [NoSioRet EXCEPT !.op = "close", !.how = hs,
                         !.kind = IF u.raised = 0 THEN "returned"
                                  ELSE "raised"]
    /\ UNCHANGED <<sessions, svcLock, created, ih, lock, stdin, stdout,
                   stdioClosed, gpc, guestErr, G, gcell, gtool, glast, gret,
                   interrupt, pc, op, call, timeout, timer, timed_out, resp,
                   errText, note, ret, nCalls, nextId, lastTool, hist, fside,
                   fstream, feof, fsent, frecv, fread, fhist, registry,
                   regLock, guests, closed, globals, scratch, home, homeCfg,
                   solo, lastRes, ca, hmsg, hcb, hcalls, hwritten, hpc,
                   tcCall, tcPc, tcClosed, tcNow, tcIn, tcOut, tcSent, faPc,
                   faTools, faCall, faExec, faRet, faSessions, faSdk,
                   emSchema, emParams, emSig, emPc, crPc, crSid, crReg,
                   sioErr>>

NextStdio ==
    \/ SioAssign
    \/ SioAttach
    \/ SioGuestWritesErr
    \/ \E i \in 1..3, to \in {"absent", "dir"} : SioGuestTampers(i, to)
    \/ \E path \in ExecPaths : \E c \in Captured(path) : SioExecCell(path, c)
    \/ \E hs \in Handshakes : SioClose(hs)

\* ======================================================== specifications

\* the parts studied on their own, at rest
ApiIdle ==
    /\ HandleIdle /\ ToolCallIdle /\ FacadeIdle /\ EmitterIdle
    /\ CreateIdle /\ StdioIdle

\* the service and one session, driven by the host threads
Init == ServiceIdle /\ FramingIdle /\ SessionsIdle /\ ApiIdle

Spec == Init /\ [][Next]_vars

\* one byte stream, its writer and its reader
InitFraming ==
    /\ ServiceIdle
    /\ SessionsIdle
    /\ ApiIdle
    /\ fside \in Readers
    /\ fstream = <<>>
    /\ feof = FALSE
    /\ fsent = <<>>
    /\ frecv = <<>>
    /\ fread = NoRead
    /\ fhist = [writes |-> 0, raw |-> FALSE, torn |-> FALSE, end |-> "none"]

SpecFraming == InitFraming /\ [][NextFraming]_vars

\* the service with several sessions, one step per call
InitSessions ==
    /\ ServiceIdle
    /\ FramingIdle
    /\ ApiIdle
    /\ registry = <<>>
    /\ regLock = FALSE
    /\ guests = [s \in Sids |-> "none"]
    /\ closed = {}
    /\ globals = [s \in Sids |-> 0]
    /\ scratch = [s \in Sids |-> 0]
    /\ home = 0
    /\ homeCfg \in BOOLEAN
    /\ solo = [s \in Sids |-> NoData]
    /\ lastRes = NoLast
    /\ ca = NoCloseAll

SpecSessions == InitSessions /\ [][NextSessions]_vars

\* _handle_tool_request called on one message, as the repository's test does
InitHandle ==
    /\ EmitterIdle
    /\ CreateIdle /\ StdioIdle
    /\ ServiceIdle /\ FramingIdle /\ SessionsIdle /\ ToolCallIdle
    /\ FacadeIdle
    /\ hmsg \in Messages
    /\ hcb \in Callbacks
    /\ hcalls = <<>>
    /\ hwritten = <<>>
    /\ hpc = "start"

SpecHandle == InitHandle /\ [][NextHandle]_vars

\* one tool_call of the guest, made by a cell or by a generated stub
InitToolCall ==
    /\ EmitterIdle
    /\ CreateIdle /\ StdioIdle
    /\ ServiceIdle /\ FramingIdle /\ SessionsIdle /\ HandleIdle
    /\ FacadeIdle
    /\ tcCall \in ToolCalls
    /\ tcPc = "start"
    /\ tcClosed \in BOOLEAN
    /\ tcNow = 0
    /\ tcIn = <<>>
    /\ tcOut = <<>>
    /\ tcSent = 0

SpecToolCall == InitToolCall /\ [][NextToolCall]_vars

\* the guest runs whenever it can (it is the only thread of its instance)
\* and time passes; the host is under no obligation
SpecToolCallFair ==
    /\ InitToolCall /\ [][NextToolCall]_vars
    /\ WF_vars(TcInvoke) /\ WF_vars(TcAwaitRead) /\ WF_vars(TcTick)

\* the facade: its constructor on a tool list, and its tools property and
\* tool_call on a facade whose fields are set
InitFacade ==
    /\ EmitterIdle
    /\ CreateIdle /\ StdioIdle
    /\ ServiceIdle /\ FramingIdle /\ SessionsIdle /\ HandleIdle
    /\ ToolCallIdle
    /\ faPc \in {"new", "built"}
    /\ faTools \in ToolLists
    /\ faCall \in IF faPc = "built" THEN FuncCalls ELSE {NoCall}
    /\ faExec = <<>>
    /\ faRet = NoFaRet
    /\ faSessions = 0
    /\ faSdk = "absent"

SpecFacade == InitFacade /\ [][NextFacade]_vars

\* the stub generator on the parameters schema of one tool
InitEmitter ==
    /\ CreateIdle /\ StdioIdle
    /\ ServiceIdle /\ FramingIdle /\ SessionsIdle /\ HandleIdle
    /\ ToolCallIdle /\ FacadeIdle
    /\ emSchema \in Schemas
    /\ emParams = <<>>
    /\ emSig = <<>>
    /\ emPc = "schema"

SpecEmitter == InitEmitter /\ [][NextEmitter]_vars

\* create_session called by several threads at once
InitCreate ==
    /\ ServiceIdle /\ FramingIdle /\ SessionsIdle
    /\ HandleIdle /\ ToolCallIdle /\ FacadeIdle /\ EmitterIdle
    /\ StdioIdle
    /\ crPc = [t \in Threads |-> "idle"]
    /\ crSid = [t \in Threads |-> 0]
    /\ crReg \in [Sids -> {0, Earlier}]

SpecCreate == InitCreate /\ [][NextCreate]_vars

\* the stdio of one session, from its construction to its close
InitStdio ==
    /\ ServiceIdle /\ FramingIdle /\ SessionsIdle
    /\ HandleIdle /\ ToolCallIdle /\ FacadeIdle /\ EmitterIdle
    /\ CreateIdle
    /\ StdioIdle

SpecStdio == InitStdio /\ [][NextStdio]_vars
\* ----------------------------------------------------------------- claims

\* the main loop has written the exec_result of every exec_request it
\* consumed when it reads the next top-level frame
C1_MainLoopOneResult ==
    /\ hist.running \in {0, 1}
    /\ (gpc = "read" => hist.running = 0)

\* no exec_request has been consumed by a tool_call waiting inside a cell
C1_NoRequestInsideCell == ~hist.midCell

\* C1 (as claimed): every exec_request the guest main loop consumes is
\* answered by exactly one exec_result before the loop reads again, and the
\* guest never consumes an exec_request while a cell is still executing.
C1_OneResultPerRequest == C1_MainLoopOneResult /\ C1_NoRequestInsideCell

\* C2 (as claimed): at any time at most one exec_request written by the
\* host is unanswered by an exec_result.
C2_AtMostOneOutstanding == hist.unanswered <= 1

\* C3 (as claimed): for every tool_request id X the host writes one
\* tool_result frame with id X, whatever mapping the callback returns, and
\* the guest tool_call that sent X returns exactly that frame.
C3_ToolResultMatches ==
    /\ lastTool.id # 0 =>
         lastTool.wrote.type = "tool_result" /\ lastTool.wrote.id = lastTool.id
    /\ gret.status \in {"returned", "raised"} =>
         /\ gret.status = "returned"
         /\ (lastTool.id = gret.id => gret.got = lastTool.wrote)

\* C4 (as claimed): the ExecResult an exec_cell call returns from a frame is
\* built from the exec_result the guest produced for that call's own
\* exec_request.
C4_ResultOfOwnRequest ==
    (ret.op = "exec" /\ ret.res.kind = "result" /\ ret.res.type # "synthetic")
        => (ret.res.type = "exec_result" /\ ret.res.from = ret.call)

\* C5: when the callback raises while serving tool_request id X, the host
\* writes a tool_result with id X and an error body; the guest tool_call
\* returns that frame; exec_cell does not give up on the cell (it goes on
\* to the terminal frame unless the guest dies); and, no request having
\* been left unanswered, the results of that and of later exec_cell calls
\* are those of their own cells.
C5_CallbackRaiseAnswered ==
    lastTool.cb = "raises" =>
        /\ lastTool.wrote = Frame("tool_result", lastTool.id, 0, FALSE, "Exception")
        /\ (gret.id = lastTool.id /\ gret.status # "pending") =>
               (gret.status = "returned" /\ gret.got = lastTool.wrote)
        /\ \A t \in Threads :
               (call[t] = lastTool.call /\ pc[t] = "exec_finish") =>
                   (resp[t].type = "exec_result"
                      \/ (gpc = "dead" /\ errText[t] = "guest stdout closed"))
        /\ (~hist.fault /\ ret.op = "exec" /\ ret.call >= lastTool.call
              /\ ret.res.kind = "result" /\ ret.res.type # "synthetic") =>
               (ret.res.type = "exec_result" /\ ret.res.from = ret.call)

\* C5 witness: after a call whose callback raised, a later exec_cell has
\* returned ok=true from its own cell
C5_Witness ==
    /\ lastTool.cb = "raises"
    /\ gret.id = lastTool.id /\ gret.status = "returned"
    /\ ret.op = "exec" /\ ret.call > lastTool.call
    /\ ret.res.kind = "result" /\ ret.res.ok /\ ret.res.from = ret.call

\* C6 (as claimed): when the callback returns a non-mapping for request id
\* X, the host still writes a tool_result with id X carrying an error.
C6_NonMappingAnswered ==
    lastTool.cb = "non_mapping" =>
        /\ lastTool.wrote.type = "tool_result"
        /\ lastTool.wrote.id = lastTool.id
        /\ lastTool.wrote.err # "none"

\* C7 (as claimed): an exec_cell that wrote its exec_request, whose timer
\* fired and whose cell did not finish returns an ExecResult with ok=false
\* and error "Timeout after T ms".
C7_TimeoutReported ==
    (ret.op = "exec" /\ ret.note.wroteReq /\ ret.timedOut
       /\ ret.res.type # "exec_result") =>
        (ret.res.kind = "result" /\ ~ret.res.ok /\ ret.res.error = "Timeout")

\* C8: a call that begins after the guest thread has terminated: exec_cell
\* never returns ok=true and writes no exec_request; _Session.reset raises.
C8_DeadGuestFails ==
    /\ \A t \in Threads : note[t].guestDead => ~note[t].wroteReq
    /\ ret.note.guestDead =>
         /\ ~ret.note.wroteReq
         /\ ret.op = "exec" => ~(ret.res.kind = "result" /\ ret.res.ok)
         /\ (ret.op = "reset" /\ ret.note.session) => ret.res.kind = "raised"

\* C8 witness: an exec_cell that began after the guest died has returned
\* the failure of _ensure_guest_running
C8_Witness ==
    /\ ret.note.guestDead /\ ~ret.note.closed
    /\ ret.op = "exec"
    /\ ret.res.kind = "result" /\ ~ret.res.ok
    /\ ret.res.error \in {"guest process terminated",
                          "guest process exited unexpectedly"}

\* once the streams are closed no step adds a frame to the guest's stdin
C9_NoFrameAfterClose == [][stdioClosed => stdin' = stdin]_vars

\* a call that began after close, or took the session mutex after close,
\* wrote no exec_request and did not return ok=true; a reset that reached
\* the session raised
C9_CallsAfterCloseFail ==
    /\ \A t \in Threads :
         (note[t].closed \/ note[t].lockedAfterClose) => ~note[t].wroteReq
    /\ (ret.note.closed \/ ret.note.lockedAfterClose) =>
         /\ ~ret.note.wroteReq
         /\ ~(ret.res.kind = "result" /\ ret.res.ok)
         /\ (ret.op = "exec" /\ ret.res.kind = "result") =>
                ret.res.error \in {"closed stream", "guest process terminated",
                                   "guest process exited unexpectedly"}
         /\ (ret.op = "reset" /\ ret.note.session) => ret.res.kind = "raised"

\* C9: once close of the session has returned, no further frame reaches the
\* guest, and an exec_cell or reset that begins afterwards, or that obtained
\* the session before close and takes the session mutex after it, fails: it
\* never returns ok=true and writes no exec_request.
C9_ClosedSessionFails == []C9_CallsAfterCloseFail /\ C9_NoFrameAfterClose

\* C9 witness: an exec_cell looked the session up before close ran, took
\* the session mutex after close had returned, and has returned a failure
C9_Witness ==
    /\ ret.op = "exec"
    /\ ret.note.session /\ ~ret.note.closed /\ ret.note.lockedAfterClose
    /\ ret.res.kind = "result" /\ ~ret.res.ok

\* C10 (as claimed): every session id in the registry refers to a session
\* whose guest thread is alive and whose stdio is open.
C10_PresentIsAlive ==
    SID \in sessions => (gpc # "dead" /\ ~stdioClosed)

\* C10 (amended): whenever no thread holds the registry lock, every session
\* id in the registry refers to a session that has not been closed (its
\* stdio is open); its guest thread may be dead.
C10_PresentIsOpen ==
    (svcLock = 0 /\ SID \in sessions) => (created /\ ~stdioClosed)

\* C10 witness: the session is in the registry, no thread holds the
\* registry lock, and the guest thread is dead
C10_Witness ==
    /\ svcLock = 0
    /\ SID \in sessions
    /\ gpc = "dead"


\* ------------------------------------------------------ claims C11 .. C20

\* C17: WasiService.exec_cell for a sid that is not in the registry raises
\* KeyError (the registry's unknown-session error), and that step writes no
\* frame and leaves the registry and the session untouched.
C17_UnknownSessionFails ==
    [][(SID \notin sessions /\ nCalls' # nCalls /\ ret' # ret
          /\ ret'.op = "exec")
        => /\ ret'.res = Raised("KeyError")
           /\ UNCHANGED <<sessions, svcLock, created, lock, stdin, stdout,
                          stdioClosed, gpc>>]_vars

\* C17 witness: an exec_cell addressed to the session after its close has
\* raised KeyError
C17_Witness ==
    /\ ret.op = "exec" /\ ~ret.note.session /\ ret.note.closed
    /\ ret.res = Raised("KeyError")

\* C18: WasiService.reset for a sid that is not in the registry returns
\* without raising, and that step writes no frame and leaves the registry
\* and the session untouched.
C18_ResetAbsentNoOp ==
    [][(SID \notin sessions /\ nCalls' # nCalls /\ ret' # ret
          /\ ret'.op = "reset")
        => /\ ret'.res = Returned
           /\ UNCHANGED <<sessions, svcLock, created, lock, stdin, stdout,
                          stdioClosed, gpc>>]_vars

\* C18 witness: a reset addressed to a closed session's id has returned
\* without reaching the session
C18_Witness ==
    /\ ret.op = "reset" /\ ~ret.note.session /\ ret.note.closed
    /\ ret.res = Returned

\* C19 (as claimed): a thread that is inside _Session.close on behalf of
\* WasiService.close does not hold the registry lock.
C19_CloseOutsideRegistryLock ==
    \A t \in Threads :
        (op[t] = "close" /\ pc[t] \in {"close_lock", "close_read"})
            => svcLock # t

C15_ZeroLengthSkipped ==
    \A i \in 1..Len(frecv) :
        (frecv[i].int /\ frecv[i].declared = 0) =>
            (frecv[i].kind = "null" /\ frecv[i].react = "skip")

\* C16 (as claimed): the read operation of either side ends with an error,
\* and decodes nothing, on a header of more than 64 bytes, on a header that
\* is not a non-negative decimal integer, on a declared length above
\* max_bytes, and on a stream that ends inside the payload.
C16_MalformedRejected ==
    \A i \in 1..Len(frecv) :
        (\/ frecv[i].hlen > HeaderMax
         \/ ~frecv[i].int
         \/ frecv[i].declared < 0
         \/ frecv[i].declared > MaxBytes
         \/ frecv[i].trunc)
            => frecv[i].kind = "error"

\* C11: within the session, once a cell has bound a global, the binding
\* stays in the guest's namespace G -- the namespace every later cell is
\* executed in -- for as long as the guest runs and the host has written
\* neither a reset frame nor the exit frame of close
C11_GlobalsPersist ==
    (hist.bound /\ gpc \in {"read", "cell", "await"}) => G = "bound"

\* the cell of a second exec_cell runs in the namespace the cell of the
\* first, answered, exec_cell bound
C11_Witness ==
    /\ ret.op = "exec" /\ ret.call = 1
    /\ ret.res.kind = "result" /\ ret.res.type = "exec_result"
    /\ gpc = "cell" /\ gcell = 2
    /\ hist.bound /\ G = "bound"

\* C12: every reset frame the guest takes from its input is acknowledged
\* with {ok: true} and leaves the namespace with no binding of an earlier
\* cell, however many reset frames came before it
C12_ResetClearsAndAcks ==
    [][(/\ stdin # <<>>
        /\ Head(stdin).type = "reset"
        /\ stdin' = Tail(stdin))
       => (/\ G' = "fresh"
           /\ GuestCanWrite => stdout' = Append(stdout, Ack))]_vars

\* C13: what a cell of one session reads -- its globals, its scratch
\* directory, the files it can open -- is what it would read had no
\* operation been made on any other session
C13_SessionsIsolated == lastRes.res = lastRes.solo

C21_ToolRequestsServedInOrder ==
    [][(stdout # <<>> /\ stdout' = Tail(stdout)) =>
         /\ lastTool.id # 0 => lastTool.wrote # NoFrame
         /\ Head(stdout).type = "tool_request" =>
              /\ lastTool'.id = Head(stdout).id
              /\ lastTool'.cb \in CallbackOutcomes
              /\ \E t \in Threads : pc[t] = "exec_wait"
                                    /\ lastTool'.call = call[t]]_vars

\* C22: for a tool_request with id X, name N and arguments A and a callback
\* that returns a mapping, the callback is invoked once with (X, N, A) and
\* one frame is written, of type tool_result, with id X, whose content
\* field is the mapping the callback returned
C22_HandleToolRequest ==
    (hpc = "done" /\ Get(hmsg, "id", "") # "" /\ hcb.kind = "mapping") =>
        /\ hcalls = << <<hmsg["id"], GetOr(hmsg, "name", ""),
                         GetOr(hmsg, "arguments", "{}")>> >>
        /\ Len(hwritten) = 1
        /\ Get(hwritten[1], "type", "") = "tool_result"
        /\ Get(hwritten[1], "id", "") = hmsg["id"]
        /\ Get(hwritten[1], "content", "absent") = hcb.value

\* C23: a guest tool_call made with a timeout t > 0 and waiting for its
\* tool_result comes to an end: it returns the result or raises
C23_ToolCallTerminates ==
    (tcPc = "await" /\ tcCall.timeout > 0)
        ~> (tcPc \in {"returned", "ToolCallError"})

\* C27: the call of a generated stub has written one tool_request, whose
\* name is the tool's name and whose arguments are the stub's arguments
C27_StubEmitsOneRequest ==
    (tcCall.caller = "stub" /\ tcPc \notin {"idle", "start"}) =>
        /\ Len(tcOut) = 1
        /\ tcOut[1].type = "tool_request"
        /\ tcOut[1].name = tcCall.positional[2]
        /\ tcOut[1].arguments = tcCall.positional[3]

\* C24: a tool_call that returned has invoked exec_cell once, with the code
\* of the arguments or with the empty string when they hold no code, and
\* returned a function_call_output with the call_id of the func_call, whose
\* output is the stdout of the result when it is ok and its error otherwise
C24_ToolCallRunsCode ==
    faPc = "called" =>
        /\ faExec = <<IF CodeOf(faCall.arguments).code = "None" THEN ""
                      ELSE CodeOf(faCall.arguments).code>>
        /\ faRet.type = "function_call_output"
        /\ faRet.call_id = faCall.call_id
        /\ faRet.output = IF faRet.result.ok THEN faRet.result.stdout
                          ELSE faRet.result.error

\* C25 (as claimed): the tools value is the built-in python tool followed by
\* the user's descriptors whose type is not function, in their order, and
\* no descriptor of type function is in it
C25_NoFunctionInTools ==
    faPc = "read" =>
        /\ faRet.tools = <<DefaultCodeTool>>
               \o SelectSeq(faTools, LAMBDA t : Get(t, "type", "None") # "function")
        /\ \A i \in 1..Len(faRet.tools) :
               Get(faRet.tools[i], "type", "None") # "function"

\* C25 (amended): the tools value is the built-in python tool followed by
\* the user's descriptors whose type is not function, in their order and
\* unmodified; past its first element, the built-in tool, which is itself
\* of type function, no descriptor of type function is in it
C25_ToolsPassThrough ==
    faPc = "read" =>
        /\ faRet.tools = <<DefaultCodeTool>>
               \o SelectSeq(faTools, LAMBDA t : Get(t, "type", "None") # "function")
        /\ \A i \in 2..Len(faRet.tools) :
               Get(faRet.tools[i], "type", "None") # "function"

\* a list that mixes function descriptors with others has been filtered
C25_Witness ==
    /\ faPc = "read"
    /\ Len(faTools) = 3
    /\ Get(faTools[1], "type", "None") = "function"
    /\ Get(faTools[2], "type", "None") # "function"
    /\ faTools[3] = ("name" :> "untyped")
    /\ faRet.tools = <<DefaultCodeTool, faTools[2], faTools[3]>>

\* C26: once the constructor is over, it has created one session and that
\* session's sdk.py holds the generated stub source
C26_ConstructorCreatesSession ==
    (faCall = NoCall /\ faPc \notin {"idle", "new"}) =>
        /\ faPc = "built"
        /\ faSessions = 1
        /\ faSdk # "absent"

\* C28: the parameters are the required names in the order of their first
\* mention in "required", then the other properties in the order of
\* "properties"; every name of either list is there exactly once
C28_ParameterOrder ==
    emPc \in {"parsed", "emitted"} =>
        LET names == [i \in 1..Len(emParams) |-> emParams[i].original_name]
            req == emSchema.required
            props == [i \in 1..Len(emSchema.properties) |->
                        emSchema.properties[i].name]
            First(q, x) == CHOOSE i \in 1..Len(q) :
                               q[i] = x /\ \A j \in 1..(i - 1) : q[j] # x
        IN /\ \A n \in {req[i] : i \in 1..Len(req)}
                         \cup {props[i] : i \in 1..Len(props)} :
                  Cardinality({i \in 1..Len(names) : names[i] = n}) = 1
           /\ \A i \in 1..Len(names) : InSeq(names[i], req) \/ InSeq(names[i], props)
           /\ \A i, j \in 1..Len(names) : i < j =>
                  IF InSeq(names[i], req)
                  THEN InSeq(names[j], req) =>
                           First(req, names[i]) < First(req, names[j])
                  ELSE /\ ~InSeq(names[j], req)
                       /\ First(props, names[i]) < First(props, names[j])

\* a name that comes twice in "required" and is the second property, after
\* a property that is not required: it is the first parameter of two
C28_Witness ==
    /\ emPc = "parsed"
    /\ Len(emSchema.required) = 2
    /\ emSchema.required[1] = emSchema.required[2]
    /\ Len(emSchema.properties) = 2
    /\ emSchema.properties[2].name = emSchema.required[1]
    /\ Len(emParams) = 2
    /\ emParams[1].original_name = emSchema.required[1]
    /\ emParams[2].original_name = emSchema.properties[1].name

\* C29: the parameters of one tool have pairwise distinct identifiers, none
\* of them a reserved word or starting with a digit, and each keeps its
\* wire name
C29_IdentifiersDistinct ==
    emPc \in {"parsed", "emitted"} =>
        /\ \A i, j \in 1..Len(emParams) :
               emParams[i].original_name # emParams[j].original_name
                   => emParams[i].name # emParams[j].name
        /\ \A i \in 1..Len(emParams) :
               /\ ~IsKeyword(emParams[i].name)
               /\ ~IsDigit(emParams[i].name[1])
               /\ emParams[i].original_name \in WireNames
               /\ emParams[i].name = ToIdentifier(emParams[i].original_name)

\* C30: in the signature a required parameter has the default of its schema
\* when there is one and no default otherwise; a parameter that is not
\* required has default None, or the default of its schema when there is one
C30_SignatureDefaults ==
    emPc = "emitted" =>
        \A i \in 1..Len(emSig) :
            LET n == emParams[i].original_name
                d == SchemaDefault(emSchema.properties, n)
            IN emSig[i].default =
                 IF InSeq(n, emSchema.required)
                 THEN (IF d = "None" THEN "none" ELSE d)
                 ELSE d

\* C31: a parameter whose schema type is a list holding "null" has, in the
\* signature, its annotation wrapped as optional and the default None,
\* required or not
C31_NullableOptionalNone ==
    emPc = "emitted" =>
        \A i \in 1..Len(emSig) :
            SchemaNullable(emSchema.properties, emParams[i].original_name) =>
                (emSig[i].wrapped /\ emSig[i].default = "None")

\* no reset or exit frame is written to stdin while an exec_cell is between
\* its exec_request and its terminal frame
C32_NoFrameDuringExec ==
    (\E t \in Threads : pc[t] = "exec_wait") =>
        /\ stdin' # Append(stdin, ResetFrame)
        /\ stdin' # Append(stdin, ExitFrame)

\* the frame a reset or close reads is the acknowledgement the main loop
\* wrote on reading its reset or exit frame
C32_AckIsOwn ==
    \A t \in Threads :
        (pc[t] \in {"reset_read", "close_read"} /\ pc'[t] # pc[t]
           /\ HostRead = "frame") =>
            /\ Head(stdout) = Ack
            /\ \A i \in 1..Len(stdin) : stdin[i].type \notin {"reset", "exit"}

\* C32 (as claimed): while an exec_cell is in progress on the session no
\* reset or exit frame of a concurrent reset or close is written to its
\* stdin, and the frame a reset or close reads as its acknowledgement is
\* the acknowledgement of its own frame.
C32_ResetCloseSerialized == [][C32_NoFrameDuringExec /\ C32_AckIsOwn]_vars

\* C33: an exec_cell that has read the terminal exec_result of its cell
\* returns that result (its ok and its error), and no synthetic Timeout or
\* Trap error, also when its timer has fired, before or after the read
C33_ReceivedResultWins ==
    [][\A t \in Threads :
         (pc[t] = "exec_finish" /\ resp[t].type = "exec_result"
            /\ timed_out[t] /\ pc'[t] = "idle") =>
             /\ ret'.res.kind = "result"
             /\ ret'.res.type = "exec_result"
             /\ ret'.res.ok = resp[t].ok
             /\ ret'.res.error = resp[t].err
             /\ ret'.res.error \notin {"Timeout", "Trap"}]_vars

\* the timer of an exec_cell fires after the call has read the exec_result
\* of its own cell and before it cancels the timer
C33_Witness ==
    \E t \in Threads :
        /\ pc[t] = "exec_finish"
        /\ timer[t] = "late"
        /\ timed_out[t]
        /\ resp[t].type = "exec_result"
        /\ resp[t].call = call[t]

\* C38 (as claimed): an engine interrupt is delivered to the guest only
\* while the exec_cell whose timer requested it is still in progress: once
\* that call has returned its timer neither sets timed_out nor traps the
\* guest, idle or in a later cell.
C38_NoLateInterrupt ==
    [][(interrupt /\ ~interrupt' /\ guestErr' = "Trap") =>
          \E t \in Threads : timer[t] \in {"fired", "late"}]_vars

\* C35: a tool_call that awaits the tool_result of id X and reads a frame of
\* another type or another id raises ToolCallError; a cell that ends on
\* that error writes one exec_result with ok=false and error type
\* ToolCallError, and the main loop reads the next top-level frame.
C35_MismatchEndsCell ==
    [][/\ (gpc = "await" /\ gpc' = "cell"
             /\ (Head(stdin).type # "tool_result" \/ Head(stdin).id # gtool)) =>
              /\ gret' = [id |-> gtool, status |-> "raised", got |-> Head(stdin)]
              /\ glast' = "ToolCallError"
       /\ (gpc = "cell" /\ glast = "ToolCallError"
             /\ gpc' \notin {"cell", "await", "dead"}) =>
              /\ gpc' = "read"
              /\ Len(stdout') = Len(stdout) + 1
              /\ LET f == stdout'[Len(stdout')] IN
                   /\ f.type = "exec_result" /\ f.call = gcell
                   /\ ~f.ok => f.err = "ToolCallError"]_vars

\* a tool_call read a tool_result of another id, the cell ended with the
\* ToolCallError and the main loop is reading again
C35_Witness ==
    /\ gret.status = "raised"
    /\ gret.got.type = "tool_result" /\ gret.got.id # gret.id
    /\ gpc = "read"
    /\ stdout # <<>>
    /\ stdout[Len(stdout)].type = "exec_result"
    /\ ~stdout[Len(stdout)].ok
    /\ stdout[Len(stdout)].err = "ToolCallError"

\* C39: every ExecResult exec_cell returns has error null when ok is true
\* and error a string when ok is false, whether it was built from a frame
\* of the guest or in an except clause
C39_ResultConsistent ==
    (ret.op = "exec" /\ ret.res.kind = "result") =>
        /\ ret.res.ok => ret.res.error = "none"
        /\ ~ret.res.ok => ret.res.error # "none"

\* an exec_cell has returned the result built in "except Exception" after
\* it had written its exec_request
C39_Witness ==
    /\ ret.op = "exec"
    /\ ret.res.kind = "result"
    /\ ret.res.type = "synthetic"
    /\ ret.note.wroteReq
    /\ ~ret.res.ok
    /\ ret.res.error # "none"

\* C40 (as claimed): a reset or close of this session that waits for the
\* session mutex, held by a running exec_cell, does not hold the registry
\* lock meanwhile: create_session and the calls on another session, which
\* take the registry lock, can run to completion.
C40_OtherSessionsNotBlocked ==
    \A t \in Threads :
        (pc[t] \in {"reset_lock", "close_lock"} /\ lock \notin {0, t})
            => svcLock = 0

\* C36 (as claimed): create_session never replaces an entry of the
\* registry: a call whose sid is present fails and leaves the registry as
\* it is, also when two threads have drawn the same sid.
C36_NeverReplaces ==
    [][\A t \in Threads :
         (crPc'[t] # crPc[t] /\ crPc[t] \in {"drawn", "checked"}
            /\ crReg[crSid[t]] # 0) =>
             /\ crPc'[t] \in {"AssertionError", "raised"}
             /\ crReg' = crReg]_vars

\* C34: the stderr of every ExecResult exec_cell returns, whichever way its
\* try block ended, is the stderr of resp followed by all the bytes that
\* were waiting on the guest stderr stream of the session, and none of them
\* is left there
C34_StderrDrained ==
    [][(sioRet' # sioRet /\ sioRet'.op = "exec_cell"
          /\ sioRet'.kind = "result" /\ sioStreams[3] = "open") =>
           /\ sioRet'.stderr = sioRet'.captured \o sioErr
           /\ sioErr' = <<>>]_vars

\* an exec_cell that ended in an except clause has returned the bytes the
\* guest had left on stderr
C34_Witness ==
    /\ sioRet.op = "exec_cell"
    /\ sioRet.kind = "result"
    /\ sioRet.how = "exception"
    /\ sioRet.was_open
    /\ Len(sioRet.buffered) = MaxErrBytes
    /\ sioRet.stderr = sioRet.buffered

\* C37: when _Session.close has returned, however the exit handshake went,
\* the three streams are closed, no FIFO node of the session is left and no
\* placeholder descriptor is open
C37_CloseReleasesStdio ==
    (sioRet.op = "close" /\ sioRet.kind = "returned") =>
        /\ \A i \in 1..3 : sioStreams[i] = "closed"
        /\ \A i \in 1..3 : sioNodes[i] # "fifo"
        /\ sioHolders = {}

\* close has returned after a handshake whose exit frame could not be
\* written, and the streams of the session are closed
C37_Witness ==
    /\ sioRet.op = "close"
    /\ sioRet.kind = "returned"
    /\ sioRet.how = "write_failed"
    /\ sioPc = "closed"
    /\ \A i \in 1..3 : sioStreams[i] = "closed"
====
